---- MODULE Spec2Model ----
(***************************************************************************)
(* Verification model of the db-chatbot query pipeline:                    *)
(*   Chat.handleSubmit -> parseWithAI / parseCrossCollectionQuery          *)
(*                     -> execute / executeCrossCollectionQuery            *)
(*                     -> aggregateByIntent -> generateNaturalResponse     *)
(* over a document store (Firestore) holding the finance collections       *)
(* college1, school1, school2 and the sports and education collections.    *)
(*                                                                         *)
(* Conventions.                                                            *)
(*  - A JavaScript string is a tuple of one-character strings, so that     *)
(*    toLowerCase, trim and includes are computed, not looked up.          *)
(*  - An optional value (a field that may be undefined) is a tuple of      *)
(*    length 0 (undefined) or 1 (the value).                               *)
(*  - Numbers are integers; the store's numeric fields are small naturals. *)
(***************************************************************************)
EXTENDS Integers, Sequences, FiniteSets, TLC

\* ------------------------------------------------------------------ bounds
\* Largest limit the text-generation service is asked for in a valid intent.
MaxLimit == 2
\* Most documents a collection of the store holds.
MaxDocs == 2

\* ------------------------------------------------------- optional values
None == <<>>
Some(x) == <<x>>
IsSome(o) == Len(o) = 1
Get(o) == o[1]

\* ------------------------------------------------------------- strings
ToLowerChar(c) ==
  CASE c = "A" -> "a" [] c = "B" -> "b" [] c = "C" -> "c" [] c = "D" -> "d"
    [] c = "E" -> "e" [] c = "F" -> "f" [] c = "G" -> "g" [] c = "H" -> "h"
    [] c = "I" -> "i" [] c = "J" -> "j" [] c = "K" -> "k" [] c = "L" -> "l"
    [] c = "M" -> "m" [] c = "N" -> "n" [] c = "O" -> "o" [] c = "P" -> "p"
    [] c = "Q" -> "q" [] c = "R" -> "r" [] c = "S" -> "s" [] c = "T" -> "t"
    [] c = "U" -> "u" [] c = "V" -> "v" [] c = "W" -> "w" [] c = "X" -> "x"
    [] c = "Y" -> "y" [] c = "Z" -> "z" [] OTHER -> c

\* String.prototype.toLowerCase
ToLowerCase(s) == [i \in 1..Len(s) |-> ToLowerChar(s[i])]

\* String.prototype.includes
Includes(s, sub) ==
  \E i \in 0..(Len(s) - Len(sub)) : SubSeq(s, i + 1, i + Len(sub)) = sub

\* String.prototype.trim (spaces only occur as " ")
RECURSIVE TrimLeft(_)
TrimLeft(s) == IF s # <<>> /\ Head(s) = " " THEN TrimLeft(Tail(s)) ELSE s
RECURSIVE TrimRight(_)
TrimRight(s) ==
  IF s # <<>> /\ s[Len(s)] = " " THEN TrimRight(SubSeq(s, 1, Len(s) - 1)) ELSE s
Trim(s) == TrimRight(TrimLeft(s))

strActive == <<"a","c","t","i","v","e">>
strInactive == <<"i","n","a","c","t","i","v","e">>
strActiveCap == <<"A","c","t","i","v","e">>
strClosed == <<"c","l","o","s","e","d">>
strSchool == <<"s","c","h","o","o","l">>
strCollege == <<"c","o","l","l","e","g","e">>
strCollegeCap == <<"C","o","l","l","e","g","e">>
strEast == <<"E","a","s","t">>
strWest == <<"W","e","s","t">>
strEastLower == <<"e","a","s","t">>
strAny == <<"a","n","y">>
strAll == <<"a","l","l">>
strUnknown == <<"u","n","k","n","o","w","n">>

\* ------------------------------------------------------------- sequences
\* Array.prototype.slice(0, n)
Slice(s, n) == SubSeq(s, 1, IF n < Len(s) THEN n ELSE Len(s))

Reverse(s) == [i \in 1..Len(s) |-> s[Len(s) + 1 - i]]

RECURSIVE Flat(_)
\* Array.prototype.flat over an array of arrays
Flat(ss) == IF ss = <<>> THEN <<>> ELSE Head(ss) \o Flat(Tail(ss))

RECURSIVE SumSeq(_)
SumSeq(s) == IF s = <<>> THEN 0 ELSE Head(s) + SumSeq(Tail(s))

Min(a, b) == IF a < b THEN a ELSE b

\* Array.from(new Set(xs)): first occurrences, in order
RECURSIVE Unique(_)
Unique(xs) ==
  IF xs = <<>> THEN <<>>
  ELSE LET init == Unique(SubSeq(xs, 1, Len(xs) - 1))
           last == xs[Len(xs)]
       IN IF \E i \in 1..Len(init) : init[i] = last THEN init ELSE Append(init, last)

\* JavaScript truthiness of an optional number / optional string
TruthyNum(o) == IsSome(o) /\ Get(o) # 0
TruthyStr(o) == IsSome(o) /\ Get(o) # <<>>

\* Array.prototype.map
MapSeq(s, F(_)) == [i \in 1..Len(s) |-> F(s[i])]

\* Array.prototype.sort with a comparator "a.key - b.key" (asc) or
\* "b.key - a.key" (desc): the sort is stable, so the element at input index j
\* lands after every element that compares smaller and every equal element
\* of a smaller index.  The result is the permutation of indexes.
StableSortPerm(keys, order) ==
  LET n == Len(keys)
      Before(i, j) ==
        IF order = "desc"
        THEN keys[i] > keys[j] \/ (keys[i] = keys[j] /\ i < j)
        ELSE keys[i] < keys[j] \/ (keys[i] = keys[j] /\ i < j)
      pos(j) == 1 + Cardinality({i \in 1..n : Before(i, j)})
  IN [p \in 1..n |-> CHOOSE j \in 1..n : pos(j) = p]

\* ------------------------------------------------------------------ types
COLLECTIONS == <<"college1", "school1", "school2">>
CollectionNames == {COLLECTIONS[i] : i \in 1..Len(COLLECTIONS)}

financeMetrics ==
  {"income", "profit", "expenditure", "salary", "rent", "electricity", "misc", "staff"}
sportsMetrics == {"medals", "coaches", "events", "teams", "sports_budget"}
educationMetrics == {"students", "teachers", "pass_rate", "avg_grade", "dropout_rate"}

\* ------------------------------------------------------------ format.ts
\* toNumber: a finite number is kept, anything else (here: a missing field) is 0
toNumber(v) == IF IsSome(v) THEN Get(v) ELSE 0

expenditureOf(record) == record.rent + record.salary + record.electricity + record.misc

profitOf(record) == record.income - expenditureOf(record)

\* -------------------------------------------------------------- data.ts
\* metricExtractor[metric](record): record.<field> ?? 0
metricExtractor(metric, record) ==
  IF metric \in financeMetrics THEN record[metric]
  ELSE toNumber(record[IF metric = "sports_budget" THEN "budget" ELSE metric])

normalizeStatus(value) ==
  IF ~IsSome(value) THEN strUnknown
  ELSE LET normalized == ToLowerCase(Trim(Get(value)))
       IN IF Includes(normalized, strInactive) THEN strInactive
          ELSE IF Includes(normalized, strActive) THEN strActive
          ELSE strUnknown

\* The fields every CampusRecord-shaped object may carry.  The finance numbers
\* are always defined; a sports or education field a record does not have
\* reads as undefined (None).
BlankRecord ==
  [id |-> 0, __collection |-> "", code |-> 0,
   location |-> None, type |-> None, statusRaw |-> None, status |-> strUnknown,
   rent |-> 0, salary |-> 0, electricity |-> 0, misc |-> 0,
   income |-> 0, staff |-> 0, expenditure |-> 0, profit |-> 0,
   teams |-> None, coaches |-> None, playgrounds |-> None, events |-> None,
   medals |-> None, budget |-> None,
   students |-> None, teachers |-> None, pass_rate |-> None, avg_grade |-> None,
   dropout_rate |-> None]

\* (variant) totals stored in the document are kept
mapDocumentKeepsStored(doc, id, collectionName) ==
  LET record == [BlankRecord EXCEPT
        !.id = id,
        !.__collection = collectionName,
        !.code = IF IsSome(doc.code) THEN Get(doc.code) ELSE id,
        !.location = doc.location,
        !.type = doc.type,
        !.statusRaw = doc.status,
        !.status = normalizeStatus(doc.status),
        !.rent = toNumber(doc.rent),
        !.salary = toNumber(doc.salary),
        !.electricity = toNumber(doc.electricity),
        !.misc = toNumber(doc.misc),
        !.income = toNumber(doc.income),
        !.staff = toNumber(doc.staff)]
  IN [record EXCEPT
        !.expenditure = IF IsSome(doc.expenditure) THEN Get(doc.expenditure)
                        ELSE expenditureOf(record),
        !.profit = IF IsSome(doc.profit) THEN Get(doc.profit) ELSE profitOf(record)]

mapDocument(doc, id, collectionName) ==
  LET record == [BlankRecord EXCEPT
        !.id = id,
        !.__collection = collectionName,
        !.code = IF IsSome(doc.code) THEN Get(doc.code) ELSE id,
        !.location = doc.location,
        !.type = doc.type,
        !.statusRaw = doc.status,
        !.status = normalizeStatus(doc.status),
        !.rent = toNumber(doc.rent),
        !.salary = toNumber(doc.salary),
        !.electricity = toNumber(doc.electricity),
        !.misc = toNumber(doc.misc),
        !.income = toNumber(doc.income),
        !.staff = toNumber(doc.staff)]
  IN [record EXCEPT !.expenditure = expenditureOf(record),
                    !.profit = profitOf(record)]

\* ------------------------------------------------------ the document store
\* A collection is the sequence of its documents in ascending document id,
\* the order in which an unordered getDocs returns them.
\*
\* getDocs(query(col, where(status), where(type), orderBy(field, dir), limit(n))):
\* an equality filter compares the stored field value itself; orderBy keeps only
\* the documents that have the field and orders them by its value, documents
\* of equal value by document id in the same direction; limit keeps the first n.
StoreQuery(docs, eqStatus, eqType, orderField, orderDir, lim) ==
  LET Match(d) == /\ (IsSome(eqStatus) => d.status = Some(Get(eqStatus)))
                  /\ (IsSome(eqType) => d.type = Some(Get(eqType)))
      matched == SelectSeq(docs, Match)
      HasField(d) == IsSome(d[Get(orderField)])
      present == SelectSeq(matched, HasField)
      asc == LET perm == StableSortPerm([i \in 1..Len(present) |->
                                           Get(present[i][Get(orderField)])], "asc")
             IN [i \in 1..Len(present) |-> present[perm[i]]]
      ordered == IF ~IsSome(orderField) THEN matched
                 ELSE IF orderDir = "desc" THEN Reverse(asc) ELSE asc
  IN IF IsSome(lim) THEN Slice(ordered, Get(lim)) ELSE ordered

\* snapshot.docs.map((doc) => mapDocument(doc.data(), doc.id, collectionName))
MapDocs(docs, collectionName) ==
  [i \in 1..Len(docs) |-> mapDocument(docs[i], docs[i].id, collectionName)]

\* fetchCollections when every getDocs succeeds: one snapshot per distinct
\* name, flattened in the order of first appearance
fetchCollections(st, collections) ==
  LET uniqueCollections == Unique(collections)
  IN Flat([i \in 1..Len(uniqueCollections) |->
             MapDocs(st[uniqueCollections[i]], uniqueCollections[i])])

\* (variant) the stored status is compared instead of the normalised one
filterByStatusRaw(records, status) ==
  IF status = strAny THEN records
  ELSE LET Keep(record) == record.statusRaw = Some(status) IN SelectSeq(records, Keep)

filterByStatus(records, status) ==
  IF status = strAny THEN records
  ELSE LET Keep(record) == record.status = status IN SelectSeq(records, Keep)

\* (variant) the breakdown lists only the collections that have matching records
aggregateByIntentPresentOnly(records, intent) ==
  LET filtered == filterByStatus(records, intent.status)
      Total(rs) == SumSeq([i \in 1..Len(rs) |-> metricExtractor(intent.metric, rs[i])])
      Subtotal(collectionName) ==
        LET Of(record) == record.__collection = collectionName
        IN Total(SelectSeq(filtered, Of))
      Present(collectionName) ==
        \E k \in 1..Len(filtered) : filtered[k].__collection = collectionName
      present == SelectSeq(intent.collections, Present)
  IN [total |-> Total(filtered),
      breakdown |-> IF intent.breakdown = "collection"
                    THEN [i \in 1..Len(present) |->
                            [collection |-> present[i], value |-> Subtotal(present[i])]]
                    ELSE <<>>,
      docsRead |-> Len(records),
      filteredCount |-> Len(filtered),
      statusApplied |-> intent.status]

aggregateByIntent(records, intent) ==
  LET filtered == filterByStatus(records, intent.status)
      Total(rs) == SumSeq([i \in 1..Len(rs) |-> metricExtractor(intent.metric, rs[i])])
      Subtotal(collectionName) ==
        LET Of(record) == record.__collection = collectionName
        IN Total(SelectSeq(filtered, Of))
  IN [total |-> Total(filtered),
      breakdown |-> IF intent.breakdown = "collection"
                    THEN [i \in 1..Len(intent.collections) |->
                            [collection |-> intent.collections[i],
                             value |-> Subtotal(intent.collections[i])]]
                    ELSE <<>>,
      docsRead |-> Len(records),
      filteredCount |-> Len(filtered),
      statusApplied |-> intent.status]

readByStatusSorted(st, collectionName, status, metric, order, limit) ==
  MapDocs(StoreQuery(st[collectionName], Some(status), None, Some(metric), order,
                     IF TruthyNum(limit) THEN limit ELSE None), collectionName)

readByTypeSorted(st, collectionName, typeValue, metric, order, limit) ==
  MapDocs(StoreQuery(st[collectionName], None, Some(typeValue), Some(metric), order,
                     IF TruthyNum(limit) THEN limit ELSE None), collectionName)

readByStatusTypeSorted(st, collectionName, status, typeValue, metric, order, limit) ==
  MapDocs(StoreQuery(st[collectionName], Some(status), Some(typeValue), Some(metric),
                     order, IF TruthyNum(limit) THEN limit ELSE None), collectionName)

\* readSports / readEducation: opts are optional values; the snapshot is
\* mapped to SportsRecord / EducationRecord (kept in the CampusRecord shape)
SportsFields == {"teams", "coaches", "playgrounds", "events", "medals", "budget"}
EducationFields == {"students", "teachers", "pass_rate", "avg_grade", "dropout_rate"}

ReadDataset(st, dataset, fields, status, type, orderField, orderDir, limit) ==
  LET docs == StoreQuery(st[dataset],
                         IF TruthyStr(status) THEN status ELSE None,
                         IF TruthyStr(type) THEN type ELSE None,
                         IF IsSome(orderField) THEN orderField ELSE None,
                         IF IsSome(orderDir) THEN Get(orderDir) ELSE "desc",
                         IF TruthyNum(limit) THEN limit ELSE None)
      Row(d) ==
        [f \in DOMAIN BlankRecord |->
           IF f = "__collection" THEN dataset
           ELSE IF f = "code" THEN toNumber(d.code)
           ELSE IF f = "location" THEN Some(IF IsSome(d.location) THEN Get(d.location) ELSE <<>>)
           ELSE IF f = "type" THEN Some(IF IsSome(d.type) THEN Get(d.type) ELSE strSchool)
           ELSE IF f = "status" THEN IF IsSome(d.status) THEN Get(d.status) ELSE strActive
           ELSE IF f \in fields THEN (IF IsSome(d[f]) THEN Some(toNumber(d[f])) ELSE None)
           ELSE BlankRecord[f]]
  IN [i \in 1..Len(docs) |-> Row(docs[i])]

readSports(st, status, type, orderField, orderDir, limit) ==
  ReadDataset(st, "sports", SportsFields, status, type, orderField, orderDir, limit)

readEducation(st, status, type, orderField, orderDir, limit) ==
  ReadDataset(st, "education", EducationFields, status, type, orderField, orderDir, limit)

\* --------------------------------------------------------- executor.ts
getDatasetType(metric) ==
  IF metric \in sportsMetrics THEN "sports"
  ELSE IF metric \in educationMetrics THEN "education"
  ELSE "finance"

indexedMetrics == {"income", "rent", "salary", "electricity", "misc"}

\* (variant) staff counted among the indexed metrics
canUseIndexesWithStaff(intent) ==
  intent.metric \in indexedMetrics \cup {"staff"} /\ IsSome(intent.sort)

canUseIndexes(intent) == intent.metric \in indexedMetrics /\ IsSome(intent.sort)

\* (variant) records of equal value come out in reverse input order
sortRecordsClientSideUnstable(records, metric, order) ==
  LET getValue(record) ==
        CASE metric = "profit" -> profitOf(record)
          [] metric = "expenditure" -> expenditureOf(record)
          [] metric \in {"income", "rent", "salary", "electricity", "misc", "staff"} ->
               record[metric]
          [] OTHER -> 0
      reversed == Reverse(records)
      perm == StableSortPerm([i \in 1..Len(reversed) |-> getValue(reversed[i])], order)
  IN [i \in 1..Len(reversed) |-> reversed[perm[i]]]

sortRecordsClientSide(records, metric, order) ==
  LET getValue(record) ==
        CASE metric = "profit" -> profitOf(record)
          [] metric = "expenditure" -> expenditureOf(record)
          [] metric \in {"income", "rent", "salary", "electricity", "misc", "staff"} ->
               record[metric]
          [] OTHER -> 0
      perm == StableSortPerm([i \in 1..Len(records) |-> getValue(records[i])], order)
  IN [i \in 1..Len(records) |-> records[perm[i]]]

\* A call of sortRecordsClientSide as its caller sees it: the array passed,
\* that array after the call ([...records] is sorted, not records), the result
SortRecordsCall(records, metric, order) ==
  [metric |-> metric, order |-> order, argument |-> records, after |-> records,
   result |-> sortRecordsClientSide(records, metric, order)]

\* One iteration of the indexed path's loop over intent.collections
\* (lines 64-102), given that its store request succeeds.
IndexedRead(st, intent, collectionName) ==
  IF intent.status # strAny /\ TruthyStr(intent.typeFilter)
  THEN readByStatusTypeSorted(st, collectionName, intent.status, Get(intent.typeFilter),
                              intent.metric, Get(intent.sort), intent.limit)
  ELSE IF intent.status # strAny
  THEN readByStatusSorted(st, collectionName, intent.status,
                          intent.metric, Get(intent.sort), intent.limit)
  ELSE IF TruthyStr(intent.typeFilter)
  THEN readByTypeSorted(st, collectionName, Get(intent.typeFilter),
                        intent.metric, Get(intent.sort), intent.limit)
  ELSE LET allDocs == fetchCollections(st, <<collectionName>>)
           records == sortRecordsClientSide(allDocs, intent.metric, Get(intent.sort))
       IN IF TruthyNum(intent.limit) THEN Slice(records, Get(intent.limit)) ELSE records

\* Whether that iteration's request is a filtered, ordered query (one that
\* needs a composite index), as opposed to a plain collection read.
IndexedReadIsQuery(intent) == intent.status # strAny \/ TruthyStr(intent.typeFilter)

\* The number of documents the store returns to that iteration's request
IndexedReadFetched(st, intent, collectionName) ==
  IF IndexedReadIsQuery(intent) THEN Len(IndexedRead(st, intent, collectionName))
  ELSE Len(st[collectionName])

\* (variant) docsRead counts the read requests, not the documents
IndexedResultCountsReads(intent, allRecords) ==
  LET resorted == sortRecordsClientSide(allRecords, intent.metric, Get(intent.sort))
      merged == IF Len(intent.collections) > 1 /\ IsSome(intent.sort)
                THEN (IF TruthyNum(intent.limit)
                      THEN Slice(resorted, Get(intent.limit)) ELSE resorted)
                ELSE allRecords
  IN [records |-> merged, docsRead |-> Len(intent.collections),
      usedIndexes |-> TRUE, executionPath |-> "firestore-indexes"]

\* The indexed path after its loop (lines 107-120)
IndexedResult(intent, allRecords) ==
  LET resorted == sortRecordsClientSide(allRecords, intent.metric, Get(intent.sort))
      merged == IF Len(intent.collections) > 1 /\ IsSome(intent.sort)
                THEN (IF TruthyNum(intent.limit)
                      THEN Slice(resorted, Get(intent.limit)) ELSE resorted)
                ELSE allRecords
  IN [records |-> merged, docsRead |-> Len(merged),
      usedIndexes |-> TRUE, executionPath |-> "firestore-indexes"]

\* (variant) the location filter compares letter case
ClientSideFilteredCaseSensitive(intent, fetched) ==
  LET StatusOk(record) == record.status = intent.status
      TypeOk(record) ==
        IsSome(record.type) /\ ToLowerCase(Get(record.type)) = ToLowerCase(Get(intent.typeFilter))
      LocationOk(record) ==
        IsSome(record.location)
        /\ Includes(Get(record.location), Get(intent.locationFilter))
      r1 == IF intent.status # strAny THEN SelectSeq(fetched, StatusOk) ELSE fetched
      r2 == IF TruthyStr(intent.typeFilter) THEN SelectSeq(r1, TypeOk) ELSE r1
  IN IF TruthyStr(intent.locationFilter) THEN SelectSeq(r2, LocationOk) ELSE r2

\* The client-side path's filters (lines 127-145)
ClientSideFiltered(intent, fetched) ==
  LET StatusOk(record) == record.status = intent.status
      TypeOk(record) ==
        IsSome(record.type) /\ ToLowerCase(Get(record.type)) = ToLowerCase(Get(intent.typeFilter))
      LocationOk(record) ==
        IsSome(record.location)
        /\ Includes(ToLowerCase(Get(record.location)), ToLowerCase(Get(intent.locationFilter)))
      r1 == IF intent.status # strAny THEN SelectSeq(fetched, StatusOk) ELSE fetched
      r2 == IF TruthyStr(intent.typeFilter) THEN SelectSeq(r1, TypeOk) ELSE r1
  IN IF TruthyStr(intent.locationFilter) THEN SelectSeq(r2, LocationOk) ELSE r2

\* The client-side path after fetchCollections resolved (lines 125-162)
ClientSideResult(intent, fetched) ==
  LET r3 == ClientSideFiltered(intent, fetched)
      r4 == IF IsSome(intent.sort)
            THEN sortRecordsClientSide(r3, intent.metric, Get(intent.sort)) ELSE r3
      r5 == IF TruthyNum(intent.limit) THEN Slice(r4, Get(intent.limit)) ELSE r4
  IN [records |-> r5, docsRead |-> Len(fetched),
      usedIndexes |-> FALSE, executionPath |-> "client-side"]

\* executeSportsQuery / executeEducationQuery: the store request
DatasetRead(st, dataset, intent) ==
  LET fieldName == IF intent.metric = "sports_budget" THEN "budget" ELSE intent.metric
      status == IF intent.status = strAny THEN None ELSE Some(intent.status)
      orderField == IF IsSome(intent.sort) THEN Some(fieldName) ELSE None
  IN IF dataset = "sports"
     THEN readSports(st, status, intent.typeFilter, orderField, intent.sort, intent.limit)
     ELSE readEducation(st, status, intent.typeFilter, orderField, intent.sort, intent.limit)

\* readSports / readEducation: the request carries orderBy when orderField is given
DatasetReadIsOrdered(intent) == IsSome(intent.sort)

DatasetReadIsQuery(intent) ==
  IsSome(intent.sort) /\ (intent.status # strAny \/ TruthyStr(intent.typeFilter))

\* (variant) the records are tagged with the first collection the intent names
DatasetResultTaggedByIntent(dataset, intent, fetched) ==
  LET LocationOk(record) ==
        IsSome(record.location)
        /\ Includes(ToLowerCase(Get(record.location)), ToLowerCase(Get(intent.locationFilter)))
      records == IF TruthyStr(intent.locationFilter)
                 THEN SelectSeq(fetched, LocationOk) ELSE fetched
      Campus(r) ==
        [r EXCEPT !.id = r.code,
                  !.__collection = IF intent.collections # <<>>
                                   THEN intent.collections[1] ELSE dataset,
                  !.status = IF r.status = strActive THEN strActive
                             ELSE IF r.status = strInactive THEN strInactive
                             ELSE strUnknown,
                  !.rent = 0, !.salary = 0, !.electricity = 0, !.misc = 0,
                  !.income = 0, !.staff = 0, !.expenditure = 0, !.profit = 0]
  IN [records |-> [i \in 1..Len(records) |-> Campus(records[i])],
      docsRead |-> Len(records),
      usedIndexes |-> IsSome(intent.sort),
      executionPath |-> IF dataset = "sports" THEN "sports-collection"
                        ELSE "education-collection"]

\* executeSportsQuery / executeEducationQuery after the read resolved
DatasetResult(dataset, intent, fetched) ==
  LET LocationOk(record) ==
        IsSome(record.location)
        /\ Includes(ToLowerCase(Get(record.location)), ToLowerCase(Get(intent.locationFilter)))
      records == IF TruthyStr(intent.locationFilter)
                 THEN SelectSeq(fetched, LocationOk) ELSE fetched
      Campus(r) ==
        [r EXCEPT !.id = r.code,
                  !.__collection = dataset,
                  !.status = IF r.status = strActive THEN strActive
                             ELSE IF r.status = strInactive THEN strInactive
                             ELSE strUnknown,
                  !.rent = 0, !.salary = 0, !.electricity = 0, !.misc = 0,
                  !.income = 0, !.staff = 0, !.expenditure = 0, !.profit = 0]
  IN [records |-> [i \in 1..Len(records) |-> Campus(records[i])],
      docsRead |-> Len(records),
      usedIndexes |-> IsSome(intent.sort),
      executionPath |-> IF dataset = "sports" THEN "sports-collection"
                        ELSE "education-collection"]

RECURSIVE IndexedLoop(_, _, _)
\* allRecords after the first n iterations of the indexed path's loop
IndexedLoop(st, intent, n) ==
  IF n = 0 THEN <<>>
  ELSE IndexedLoop(st, intent, n - 1) \o IndexedRead(st, intent, intent.collections[n])

\* execute(intent) when every store request it issues succeeds
execute(st, intent) ==
  LET datasetType == getDatasetType(intent.metric)
  IN IF datasetType # "finance"
     THEN DatasetResult(datasetType, intent, DatasetRead(st, datasetType, intent))
     ELSE IF canUseIndexes(intent)
     THEN IndexedResult(intent, IndexedLoop(st, intent, Len(intent.collections)))
     ELSE ClientSideResult(intent, fetchCollections(st, intent.collections))

\* ------------------------------------------------------- the stored data
FinDoc(id, status, type, location, income, rent, salary, electricity, misc, staff) ==
  [id |-> id, code |-> None, status |-> status, type |-> type, location |-> location,
   income |-> income, rent |-> rent, salary |-> salary, electricity |-> electricity,
   misc |-> misc, staff |-> staff,
   \* stored totals, which do not agree with the stored parts
   expenditure |-> Some(7), profit |-> Some(7)]

SportsDoc(id, status, type, location, medals, budget, teams) ==
  [id |-> id, code |-> Some(id), status |-> status, type |-> type, location |-> location,
   teams |-> teams, coaches |-> Some(1), playgrounds |-> None, events |-> Some(2),
   medals |-> medals, budget |-> budget]

EducationDoc(id, status, type, location, students, pass_rate) ==
  [id |-> id, code |-> Some(id), status |-> status, type |-> type, location |-> location,
   students |-> students, teachers |-> Some(2), pass_rate |-> pass_rate,
   avg_grade |-> Some(7), dropout_rate |-> None]

\* The documents each collection may hold, in document-id order.  They mix
\* canonical documents with the shapes the normalisation code exists for: a
\* status in another letter case, missing fields, equal metric values.
Catalogue ==
  [college1 |-> <<
     FinDoc(1, Some(strActive), Some(strCollege), Some(strEast),
            Some(4), Some(1), Some(1), Some(0), Some(0), Some(2)),
     FinDoc(2, Some(strActiveCap), Some(strCollegeCap), Some(strWest),
            Some(5), Some(2), Some(0), Some(1), Some(0), Some(1)),
     FinDoc(3, Some(strActive), Some(strCollege), Some(strEast),
            Some(4), Some(0), Some(2), Some(0), Some(1), Some(3)),
     FinDoc(4, Some(strInactive), Some(strCollege), Some(strWest),
            Some(6), Some(3), Some(1), Some(0), Some(0), Some(2)) >>,
   school1 |-> <<
     FinDoc(1, Some(strActive), Some(strSchool), Some(strEast),
            Some(5), Some(1), Some(2), Some(1), Some(1), Some(1)),
     FinDoc(2, Some(strInactive), Some(strSchool), None,
            Some(-2), Some(0), Some(1), Some(0), Some(0), Some(4)),
     FinDoc(3, Some(strActive), Some(strSchool), Some(strWest),
            Some(5), Some(1), Some(0), Some(0), Some(0), Some(2)),
     FinDoc(4, Some(strActive), None, None,
            Some(2), Some(2), Some(2), Some(0), Some(0), Some(0)) >>,
   school2 |-> <<
     FinDoc(1, Some(strActive), Some(strSchool), Some(strWest),
            Some(0), Some(1), Some(0), Some(0), Some(1), Some(1)),
     FinDoc(2, None, None, None,
            None, Some(1), None, Some(0), Some(0), None),
     FinDoc(3, Some(strClosed), Some(strSchool), Some(strEast),
            Some(3), Some(0), Some(0), Some(0), Some(0), Some(1)),
     FinDoc(4, Some(strActive), Some(strSchool), Some(strEast),
            Some(1), Some(1), Some(1), Some(1), Some(1), Some(1)) >>,
   sports |-> <<
     SportsDoc(1, Some(strActive), Some(strSchool), Some(strEast), Some(3), Some(2), Some(1)),
     SportsDoc(2, Some(strActive), Some(strCollege), Some(strEast), Some(5), Some(1), None),
     SportsDoc(3, Some(strInactive), Some(strSchool), Some(strWest), Some(5), None, Some(2)),
     SportsDoc(4, None, None, None, None, Some(3), Some(1)) >>,
   education |-> <<
     EducationDoc(1, Some(strActive), Some(strSchool), Some(strWest), Some(4), Some(90)),
     EducationDoc(2, Some(strActive), Some(strSchool), Some(strEast), Some(6), Some(80)),
     EducationDoc(3, Some(strInactive), Some(strCollege), Some(strEast), Some(6), None),
     EducationDoc(4, None, None, None, None, Some(70)) >> ]

StoreNames == DOMAIN Catalogue

\* The stores: every collection holds the first n documents of its catalogue.
StoreOfSize(n) ==
  [c \in StoreNames |-> SubSeq(Catalogue[c], 1, Min(n, Len(Catalogue[c])))]

Stores == {StoreOfSize(n) : n \in 0..MaxDocs}

\* ------------------------------------------------- cross-collection.ts
getMetricDataset(metric) ==
  IF metric \in sportsMetrics THEN "sports"
  ELSE IF metric \in educationMetrics THEN "education"
  ELSE "finance"

\* datasetTypes: the datasets the metrics need, in the order they are fetched
DatasetTypes(crossIntent) ==
  LET needed == {getMetricDataset(crossIntent.metrics[i]) : i \in 1..Len(crossIntent.metrics)}
      Is(d) == d \in needed
  IN SelectSeq(<<"finance", "sports", "education">>, Is)

BlankMerged ==
  [code |-> 0, location |-> <<>>, status |-> strUnknown, type |-> strUnknown,
   __collection |-> "merged",
   income |-> None, rent |-> None, salary |-> None, electricity |-> None, misc |-> None,
   staff |-> None, expenditure |-> None, profit |-> None,
   medals |-> None, coaches |-> None, events |-> None, teams |-> None,
   sports_budget |-> None,
   students |-> None, teachers |-> None, pass_rate |-> None, avg_grade |-> None,
   dropout_rate |-> None]

\* The body of records.forEach (lines 84-125) for one record
MergeRecord(acc, record, datasetType) ==
  IF ~TruthyStr(record.location) THEN acc
  ELSE
    LET location == Get(record.location)
        has == \E i \in 1..Len(acc) : acc[i].location = location
        fresh == [BlankMerged EXCEPT
                    !.code = record.code,
                    !.location = location,
                    !.status = IF record.status # <<>> THEN record.status ELSE strUnknown,
                    !.type = IF TruthyStr(record.type) THEN Get(record.type) ELSE strUnknown]
        rows == IF has THEN acc ELSE Append(acc, fresh)
        k == CHOOSE i \in 1..Len(rows) : rows[i].location = location
        merged == rows[k]
        updated ==
          CASE datasetType = "finance" ->
                 [merged EXCEPT !.income = Some(record.income), !.rent = Some(record.rent),
                                !.salary = Some(record.salary),
                                !.electricity = Some(record.electricity),
                                !.misc = Some(record.misc), !.staff = Some(record.staff),
                                !.expenditure = Some(record.expenditure),
                                !.profit = Some(record.profit)]
            [] datasetType = "sports" ->
                 [merged EXCEPT !.medals = record.medals, !.coaches = record.coaches,
                                !.events = record.events, !.teams = record.teams,
                                !.sports_budget = record.budget]
            [] datasetType = "education" ->
                 [merged EXCEPT !.students = record.students, !.teachers = record.teachers,
                                !.pass_rate = record.pass_rate,
                                !.avg_grade = record.avg_grade,
                                !.dropout_rate = record.dropout_rate]
    IN [rows EXCEPT ![k] = updated]

RECURSIVE MergeRecords(_, _, _)
MergeRecords(acc, records, datasetType) ==
  IF records = <<>> THEN acc
  ELSE MergeRecords(MergeRecord(acc, Head(records), datasetType), Tail(records), datasetType)

RECURSIVE MergeResults(_, _, _)
\* results.forEach((records, index) => ...) over the fetched datasets
MergeResults(acc, results, datasetTypes) ==
  IF results = <<>> THEN acc
  ELSE MergeResults(MergeRecords(acc, Head(results), Head(datasetTypes)),
                    Tail(results), Tail(datasetTypes))

\* The record arrays Promise.all resolves to when every request succeeds
CrossFetch(st, crossIntent) ==
  LET status == IF crossIntent.status = Some(strAny) THEN None ELSE crossIntent.status
      Get1(d) ==
        CASE d = "finance" -> fetchCollections(st, <<"college1", "school1", "school2">>)
          [] d = "sports" -> readSports(st, status, crossIntent.typeFilter, None, None, None)
          [] d = "education" ->
               readEducation(st, status, crossIntent.typeFilter, None, None, None)
      types == DatasetTypes(crossIntent)
  IN [i \in 1..Len(types) |-> Get1(types[i])]

\* executeCrossCollectionQuery after Promise.all resolved (lines 78-155)
CrossResult(crossIntent, results) ==
  LET all == MergeResults(<<>>, results, DatasetTypes(crossIntent))
      LocationOk(record) ==
        Includes(ToLowerCase(record.location), ToLowerCase(Get(crossIntent.locationFilter)))
      StatusOk(record) == record.status = Get(crossIntent.status)
      TypeOk(record) == ToLowerCase(record.type) = ToLowerCase(Get(crossIntent.typeFilter))
      r1 == IF TruthyStr(crossIntent.locationFilter) THEN SelectSeq(all, LocationOk) ELSE all
      r2 == IF TruthyStr(crossIntent.status) /\ crossIntent.status # Some(strAny)
            THEN SelectSeq(r1, StatusOk) ELSE r1
      r3 == IF TruthyStr(crossIntent.typeFilter) THEN SelectSeq(r2, TypeOk) ELSE r2
  IN [records |-> r3,
      docsRead |-> SumSeq([i \in 1..Len(results) |-> Len(results[i])]),
      usedIndexes |-> FALSE, executionPath |-> "cross-collection-merge"]

executeCrossCollectionQuery(st, crossIntent) ==
  CrossResult(crossIntent, CrossFetch(st, crossIntent))

\* ------------------------------------------------------------- merge.ts
\* String(record.location ?? "")
LocationKey(record) == IF IsSome(record.location) THEN Get(record.location) ELSE <<>>

\* (variant) a sports or education record does not replace the one its row holds
MergeOneFirstWins(rows, record, kind) ==
  LET loc == LocationKey(record)
      has == \E k \in 1..Len(rows) : rows[k].location = loc
      created == IF has THEN rows
                 ELSE Append(rows, [location |-> loc, finance |-> <<>>,
                                    sports |-> None, education |-> None])
      at == CHOOSE k \in 1..Len(created) : created[k].location = loc
  IN CASE kind = "finance" ->
            [created EXCEPT ![at].finance = Append(@, record)]
       [] kind = "sports" ->
            [created EXCEPT ![at].sports = IF IsSome(@) THEN @ ELSE Some(record)]
       [] kind = "education" ->
            [created EXCEPT ![at].education = IF IsSome(@) THEN @ ELSE Some(record)]

\* getOrCreate(loc), then the assignment of one record to its row
MergeOne(rows, record, kind) ==
  LET loc == LocationKey(record)
      has == \E k \in 1..Len(rows) : rows[k].location = loc
      created == IF has THEN rows
                 ELSE Append(rows, [location |-> loc, finance |-> <<>>,
                                    sports |-> None, education |-> None])
      at == CHOOSE k \in 1..Len(created) : created[k].location = loc
  IN CASE kind = "finance" ->
            [created EXCEPT ![at].finance = Append(@, record)]
       [] kind = "sports" -> [created EXCEPT ![at].sports = Some(record)]
       [] kind = "education" -> [created EXCEPT ![at].education = Some(record)]

RECURSIVE MergeAll(_, _, _)
\* for (const r of records) ...
MergeAll(rows, records, kind) ==
  IF records = <<>> THEN rows
  ELSE MergeAll(MergeOne(rows, Head(records), kind), Tail(records), kind)

\* (variant) records without a location are left out, as in the chat's merge
mergeByLocationSkipsUnlocated(finance, sports, education) ==
  LET Located(record) == TruthyStr(record.location)
  IN MergeAll(MergeAll(MergeAll(<<>>, SelectSeq(finance, Located), "finance"),
                       SelectSeq(sports, Located), "sports"),
              SelectSeq(education, Located), "education")

mergeByLocation(finance, sports, education) ==
  MergeAll(MergeAll(MergeAll(<<>>, finance, "finance"), sports, "sports"),
           education, "education")

\* ----------------------------------------------------------- ai-parser.ts
LimitMin == 1
LimitMax == 100

validMetrics == financeMetrics \cup sportsMetrics \cup educationMetrics
validCollections == {"college1", "school1", "school2"}
validStatus == {strActive, strInactive, strAny}
validBreakdown == {"none", "collection"}
validSort == {Some("asc"), Some("desc"), None}

\* An intent's limit is a JSON number: limit holds its integer part and
\* limitHalf tells whether its fractional part is .5 (2.5 is limit 2 with
\* limitHalf).  n < bound and n > bound for such a number and an integer bound:
NumberLess(whole, half, bound) == whole < bound
NumberGreater(whole, half, bound) == whole > bound \/ (whole = bound /\ half)

\* validateIntent: TRUE when it returns, FALSE when it throws
validateIntent(intent) ==
  /\ intent.metric \in validMetrics
  /\ \A i \in 1..Len(intent.collections) : intent.collections[i] \in validCollections
  /\ intent.status \in validStatus
  /\ intent.breakdown \in validBreakdown
  /\ intent.sort \in validSort
  /\ ~(IsSome(intent.limit)
       /\ (\/ NumberLess(Get(intent.limit), intent.limitHalf, LimitMin)
           \/ NumberGreater(Get(intent.limit), intent.limitHalf, LimitMax)))

\* ------------------------------------------------------------- the inputs
\* The metrics the text-generation service names in its answers
AnswerMetrics == financeMetrics \cup {"medals", "sports_budget", "students"}

\* The collections lists of its answers: empty, single, several, the default
\* of all three, and a name given twice
AnswerCollections ==
  { <<>>, <<"college1">>, <<"college1", "school1">>, <<"school1", "college1">>,
    <<"college1", "college1">>, <<"college1", "school1", "school2">> }

Intents ==
  [metric : AnswerMetrics,
   collections : AnswerCollections,
   status : validStatus,
   breakdown : validBreakdown,
   typeFilter : {None, Some(strSchool)},
   locationFilter : {None, Some(strEastLower)},
   sort : validSort,
   limit : {None} \cup {Some(k) : k \in 1..MaxLimit},
   limitHalf : {FALSE}]

BaseIntent ==
  [metric |-> "income", collections |-> <<"college1">>, status |-> strActive,
   breakdown |-> "none", typeFilter |-> None, locationFilter |-> None,
   sort |-> None, limit |-> None, limitHalf |-> FALSE]

\* Answers that parse as JSON but name a value outside the schema
InvalidIntents ==
  { [BaseIntent EXCEPT !.metric = "revenue"],
    [BaseIntent EXCEPT !.collections = <<"college1", "college2">>],
    [BaseIntent EXCEPT !.status = strAll],
    [BaseIntent EXCEPT !.breakdown = "metric"],
    [BaseIntent EXCEPT !.sort = Some("up")],
    [BaseIntent EXCEPT !.limit = Some(LimitMin - 1)],
    [BaseIntent EXCEPT !.limit = Some(LimitMax + 1)] }

\* Answers whose limit is not an integer: 0.5, 1.5 and 100.5
FractionalIntents ==
  { [BaseIntent EXCEPT !.limit = Some(LimitMin - 1), !.limitHalf = TRUE],
    [BaseIntent EXCEPT !.limit = Some(LimitMin), !.limitHalf = TRUE],
    [BaseIntent EXCEPT !.limit = Some(LimitMax), !.limitHalf = TRUE] }

\* What the completion request of parseWithAI comes back with: a rejected
\* request, a completion without content, content that is not JSON, or JSON
AiAnswers ==
  {[kind |-> k, intent |-> BaseIntent] : k \in {"rejected", "empty", "malformed"}}
  \cup {[kind |-> "json", intent |-> i] :
          i \in Intents \cup InvalidIntents \cup FractionalIntents}

CrossIntents ==
  [metrics : { <<>>, <<"medals", "pass_rate">>, <<"income", "students">>,
               <<"profit", "medals", "students">> },
   locationFilter : {None, Some(strEastLower)},
   status : {Some(strActive), Some(strAny)},
   typeFilter : {None, Some(strSchool)}]

BaseCrossIntent ==
  [metrics |-> <<>>, locationFilter |-> None, status |-> Some(strActive),
   typeFilter |-> None]

\* What the completion request of parseCrossCollectionQuery comes back with
CrossAnswers ==
  {[kind |-> k, intent |-> BaseCrossIntent] : k \in {"rejected", "empty", "malformed"}}
  \cup {[kind |-> "json", intent |-> i] : i \in CrossIntents}

\* How a store request ends: with its snapshot, with a network failure, or,
\* for a filtered and ordered query, rejected for want of a composite index
FetchOutcomes(isQuery) ==
  {"ok", "NetworkFailure"} \cup (IF isQuery THEN {"IndexUnavailable"} ELSE {})

\* How generateNaturalResponse ends: with the completion's text, with its
\* fallback text (the completion request failed inside its try), or by
\* throwing (a failure outside its try)
SummariserOutcomes == {"text", "fallback", "thrown"}

\* (variant) getSampleDataContext reads no collection
NoSampleCollections == <<>>

\* The argument of fetchCollections in getSampleDataContext
SampleCollections == <<"college1", "school1", "school2">>

\* ------------------------------------------------------------- the state
VARIABLES
  store,        \* the document store's collections (read-only for this program)
  pc,           \* where Chat.handleSubmit is suspended: which await it is at
  isLoading,    \* Chat's isLoading state
  reply,        \* the assistant message this request appended to messages
  intent,       \* the Intent parseWithAI returned, as an optional value
  crossIntent,  \* the CrossCollectionIntent parseCrossCollectionQuery returned
  loopIdx,      \* execute: index into intent.collections of the pending iteration
  allRecords,   \* execute: allRecords of the indexed path
  execution,    \* the ExecutionResult of this request, as an optional value
  summary,      \* aggregateByIntent's result for this request, as an optional value
  log,          \* what happened in this request: requests issued, calls made, failures
  activeTab,    \* App's activeTab: the one component that is mounted
  mergedTable,  \* MergedLocationTable's state: loading, error, data
  dataTable,    \* DataTable's state and the fetches its effects have in flight
  steps         \* the multi-step Chat: its messages, isLoading, where handleSubmit is

vars == <<store, pc, isLoading, reply, intent, crossIntent, loopIdx, allRecords,
          execution, summary, log, activeTab, mergedTable, dataTable, steps>>

\* The components App mounts, one at a time: the chat, the finance table,
\* the merged-by-location table, and the multi-step Chat component, which is
\* mounted as the chat tab in the build that ships it
Tabs == {"chat", "data", "merged", "multistep"}

\* MergedLocationTable: its initial state, and its state once the mount
\* effect has run (setLoading(true), setError(null), Promise.all pending)
TableUnmounted == [loading |-> FALSE, error |-> None, data |-> <<>>]
TableLoading == [loading |-> TRUE, error |-> None, data |-> <<>>]

\* The fetches a DataTable may have in flight at once
MaxInFlight == 2

\* DataTable: not rendered, and right after mounting (every collection
\* selected; the fetch effect has run: setLoading(true), setError(null), and
\* its fetchCollections request is in flight with its active flag set).
\* fetches are the effects' requests in flight, in the order they were issued;
\* dropped tells whether a response arrived after its effect was cleaned up.
DataTableUnmounted ==
  [selectedCollections |-> <<>>, data |-> <<>>, loading |-> FALSE, error |-> None,
   fetches |-> <<>>, dropped |-> FALSE]
DataTableMounted ==
  [selectedCollections |-> COLLECTIONS, data |-> <<>>, loading |-> TRUE, error |-> None,
   fetches |-> <<[collections |-> COLLECTIONS, active |-> TRUE]>>, dropped |-> FALSE]

\* The requests the multi-step Chat handles while it stays mounted
MaxRequests == 2

\* A message of the multi-step Chat: its type, the status of an execution
\* message, the text of an error message, hasData of a detailed result
Message(type, status, text, hasData) ==
  [type |-> type, status |-> status, text |-> text, hasData |-> hasData]

\* The multi-step Chat after mounting: the greeting, not loading
StepsInitial ==
  [pc |-> "idle", isLoading |-> FALSE, intent |-> None,
   messages |-> <<Message("text", "none", "greeting", FALSE)>>]

\* The answers the completion request gets in the multi-step Chat: those of
\* AiAnswers for intents over one or two collections without type filter,
\* location filter, limit and breakdown
StepAnswers ==
  {a \in AiAnswers :
     a.kind = "json" /\ a.intent \in Intents
     => /\ a.intent.collections \in {<<"college1">>, <<"college1", "school1">>}
        /\ a.intent.typeFilter = None
        /\ a.intent.locationFilter = None
        /\ a.intent.limit = None
        /\ a.intent.breakdown = "none"}

NoReply ==
  [type |-> "none", text |-> "", intent |-> None, hasData |-> FALSE, summary |-> None,
   execution |-> None, detailedRecords |-> None, aiResponse |-> None]

EmptyLog ==
  [sampleFetches |-> 0,        \* getDocs requests issued by getSampleDataContext
   executeFetches |-> 0,       \* getDocs requests issued by execute / executeCrossCollectionQuery
   fetchedFrom |-> {},         \* the collections those requests read
   orderedQueries |-> 0,       \* those of them that carry an orderBy clause
   docsFetched |-> 0,          \* documents the store returned to those requests
   arrival |-> <<>>,           \* fetchCollections in execute: the order its responses arrived in
   fetched |-> <<>>,           \* fetchCollections in execute: the records it returned
   sortCalls |-> <<>>,         \* execute: its calls of sortRecordsClientSide
   executeCalled |-> FALSE,    \* execute was called
   crossExecuteCalled |-> FALSE, \* executeCrossCollectionQuery was called
   parseFailed |-> FALSE,      \* parseWithAI / parseCrossCollectionQuery threw
   validationFailed |-> FALSE, \* validateIntent threw
   path |-> "none",            \* the path execute took: indexed, client, sports, education, cross
   fetchFailed |-> "no",       \* the failure of a store request issued by execute
   summariser |-> "none"]      \* how generateNaturalResponse ended

Init ==
  /\ store \in Stores
  /\ pc = "idle"
  /\ isLoading = FALSE
  /\ reply = NoReply
  /\ intent = None
  /\ crossIntent = None
  /\ loopIdx = 0
  /\ allRecords = <<>>
  /\ execution = None
  /\ summary = None
  /\ log = EmptyLog
  /\ activeTab \in Tabs
  /\ mergedTable = IF activeTab = "merged" THEN TableLoading ELSE TableUnmounted
  /\ dataTable = IF activeTab = "data" THEN DataTableMounted ELSE DataTableUnmounted
  /\ steps = StepsInitial

\* The catch block of handleSubmit followed by its finally block
ErrorReply(message) == [NoReply EXCEPT !.type = "error", !.text = message]

\* The result message of handleSubmit (lines 148-165)
ResultReply(i, exec, sum, aiResponse) ==
  [NoReply EXCEPT !.type = "result",
                  !.intent = Some(i),
                  !.hasData = Len(exec.records) > 0,
                  !.summary = Some(sum),
                  !.execution = Some(exec),
                  !.detailedRecords = IF IsSome(i.sort) \/ TruthyNum(i.limit)
                                      THEN Some(exec.records) ELSE None,
                  !.aiResponse = aiResponse]

\* The text message of handleSubmit's cross-collection branch (lines 115-127);
\* its text is generateCrossCollectionResponse's, a function of the result
CrossReply(ci, exec) ==
  [NoReply EXCEPT !.type = "text",
                  !.text = IF Len(exec.records) = 0
                           THEN "No matching data found across the collections."
                           ELSE "summaries"]

\* handleSubmit up to its first await.  cross is what isCrossCollectionQuery
\* returns for the trimmed input; a blank input returns before anything changes.
Submit ==
  /\ activeTab = "chat"
  /\ pc = "idle"
  /\ ~isLoading
  /\ isLoading' = TRUE
  /\ reply' = NoReply
  /\ intent' = None
  /\ crossIntent' = None
  /\ loopIdx' = 0
  /\ allRecords' = <<>>
  /\ execution' = None
  /\ summary' = None
  /\ \E cross \in BOOLEAN :
       IF cross
       THEN /\ pc' = "parseCross"
            /\ log' = EmptyLog
       ELSE /\ pc' = "sampleData"
            /\ log' = [EmptyLog EXCEPT !.sampleFetches = Len(Unique(SampleCollections))]
  /\ UNCHANGED <<store, activeTab, mergedTable, dataTable, steps>>

\* getSampleDataContext: fetchCollections settles; a failure is caught and
\* only changes the prompt text.  parseWithAI then awaits the completion.
SampleData ==
  /\ pc = "sampleData"
  /\ pc' = "parseWithAI"
  /\ UNCHANGED <<store, isLoading, reply, intent, crossIntent, loopIdx, allRecords,
                 execution, summary, log, activeTab, mergedTable, dataTable, steps>>

\* execute finished with result exec: handleSubmit aggregates and awaits
\* generateNaturalResponse
Executed(i, exec, lg) ==
  /\ execution' = Some(exec)
  /\ summary' = Some(aggregateByIntent(exec.records, i))
  /\ pc' = "summarise"
  /\ log' = lg
  /\ UNCHANGED <<isLoading, reply>>

\* An exception reached handleSubmit's catch: the error message is appended
\* and finally resets isLoading; the handler's locals are gone
Failed(message, lg) ==
  /\ reply' = ErrorReply(message)
  /\ isLoading' = FALSE
  /\ pc' = "idle"
  /\ log' = lg
  /\ intent' = None
  /\ crossIntent' = None
  /\ loopIdx' = 0
  /\ allRecords' = <<>>
  /\ execution' = None
  /\ summary' = None

\* (variant) the requests are reported failed only when none succeeded
RejectsWhenAllFail(outcomes) ==
  outcomes # <<>> /\ \A k \in 1..Len(outcomes) : outcomes[k] # "ok"

\* Promise.all / await over store requests with the given outcomes: rejects
\* when one of them failed
Rejects(outcomes) == \E k \in 1..Len(outcomes) : outcomes[k] # "ok"

\* The failure Promise.all rejects with: the first in request order ("no": none)
FirstFailure(outcomes) ==
  IF \E k \in 1..Len(outcomes) : outcomes[k] # "ok"
  THEN outcomes[CHOOSE k \in 1..Len(outcomes) :
                  /\ outcomes[k] # "ok"
                  /\ \A j \in 1..(k - 1) : outcomes[j] = "ok"]
  ELSE "no"

\* The orders in which the responses to n concurrent requests can arrive:
\* arrival[k] is the index of the request whose response arrives k-th
Arrivals(n) == {a \in [1..n -> 1..n] : \A j, k \in 1..n : a[j] = a[k] => j = k}

\* (variant) the values are collected in the order of arrival
PromiseAllInArrivalOrder(responses, arrival) ==
  [k \in 1..Len(responses) |-> responses[arrival[k]]]

\* Promise.all(promises) when every promise fulfils: each value is stored at
\* the index of its promise when it arrives
PromiseAll(responses, arrival) ==
  [idx \in 1..Len(responses) |->
     LET k == CHOOSE k \in 1..Len(arrival) : arrival[k] = idx
     IN responses[arrival[k]]]

\* fetchCollections' snapshots for the requests that succeeded, flattened
FetchedRecords(st, collections, outcomes, arrival) ==
  LET uniqueCollections == Unique(collections)
      snapshots == [k \in 1..Len(uniqueCollections) |->
                      IF outcomes[k] = "ok"
                      THEN MapDocs(st[uniqueCollections[k]], uniqueCollections[k])
                      ELSE <<>>]
  IN Flat(PromiseAll(snapshots, arrival))

\* (variant) a missing composite index makes execute continue on the
\* client-side path
IndexedReadFallsBack(outcome, lg) ==
  IF outcome = "IndexUnavailable"
  THEN /\ pc' = "fetchCollections"
       /\ log' = [lg EXCEPT !.executeFetches = @ + Len(Unique(Get(intent).collections))]
       /\ UNCHANGED <<isLoading, reply, intent, crossIntent, loopIdx, allRecords,
                      execution, summary>>
  ELSE Failed(outcome, lg)

\* The indexed path: the awaited read rejected; execute has no try/catch, so
\* the error leaves it and reaches handleSubmit's catch
IndexedReadRejected(outcome, lg) == Failed(outcome, lg)

\* execute(i), called by handleSubmit, up to its first await
StartExecute(i, lg) ==
  /\ intent' = Some(i)
  /\ UNCHANGED crossIntent
  /\ IF getDatasetType(i.metric) # "finance"
     THEN /\ pc' = "readDataset"
          /\ log' = [lg EXCEPT !.executeCalled = TRUE, !.path = getDatasetType(i.metric),
                               !.executeFetches = 1,
                               !.fetchedFrom = {getDatasetType(i.metric)},
                               !.orderedQueries = IF DatasetReadIsOrdered(i) THEN 1 ELSE 0]
          /\ UNCHANGED <<loopIdx, allRecords, execution, summary, isLoading, reply>>
     ELSE IF canUseIndexes(i) /\ i.collections = <<>>
     THEN /\ Executed(i, IndexedResult(i, <<>>),
                      [lg EXCEPT !.executeCalled = TRUE, !.path = "indexed"])
          /\ UNCHANGED <<loopIdx, allRecords>>
     ELSE IF canUseIndexes(i)
     THEN /\ pc' = "indexedRead"
          /\ loopIdx' = 1
          /\ log' = [lg EXCEPT !.executeCalled = TRUE, !.path = "indexed",
                               !.executeFetches = 1,
                               !.fetchedFrom = {i.collections[1]},
                               !.orderedQueries = IF IndexedReadIsQuery(i) THEN 1 ELSE 0]
          /\ UNCHANGED <<allRecords, execution, summary, isLoading, reply>>
     ELSE /\ pc' = "fetchCollections"
          /\ log' = [lg EXCEPT !.executeCalled = TRUE, !.path = "client",
                               !.executeFetches = Len(Unique(i.collections)),
                               !.fetchedFrom = {i.collections[k] : k \in 1..Len(i.collections)}]
          /\ UNCHANGED <<loopIdx, allRecords, execution, summary, isLoading, reply>>

\* (variant) a failed parse is replaced by the default intent
ParseThrowsDefaulted(answer) ==
  StartExecute(BaseIntent, [log EXCEPT !.parseFailed = TRUE,
                                       !.validationFailed = (answer.kind = "json")])

\* parseWithAI throws (its catch rethrows one message for every cause) and
\* handleSubmit's catch appends it
ParseThrows(answer) ==
  Failed("Failed to parse query with AI. Please try rephrasing your question.",
         [log EXCEPT !.parseFailed = TRUE, !.validationFailed = (answer.kind = "json")])

\* parseWithAI from the completion's arrival to its return or throw and, when
\* it returns, handleSubmit's call of execute
ParseWithAI ==
  /\ pc = "parseWithAI"
  /\ \E answer \in AiAnswers :
       /\ UNCHANGED <<store, activeTab, mergedTable, dataTable, steps>>
       /\ IF answer.kind = "json" /\ validateIntent(answer.intent)
          THEN StartExecute(answer.intent, log)
          ELSE ParseThrows(answer)

\* The indexed path: the pending iteration's store request settles
IndexedRead_Settles ==
  /\ pc = "indexedRead"
  /\ \E outcome \in FetchOutcomes(IndexedReadIsQuery(Get(intent))) :
       /\ UNCHANGED <<store, activeTab, mergedTable, dataTable, steps>>
       /\ LET i == Get(intent)
              records == allRecords \o IndexedRead(store, i, i.collections[loopIdx])
              lg == [log EXCEPT !.fetchFailed = FirstFailure(<<outcome>>)]
              got == [lg EXCEPT !.docsFetched =
                                  @ + IndexedReadFetched(store, i, i.collections[loopIdx]),
                                !.sortCalls =
                                  @ \o (IF IndexedReadIsQuery(i) THEN <<>>
                                        ELSE <<SortRecordsCall(
                                                 fetchCollections(store, <<i.collections[loopIdx]>>),
                                                 i.metric, Get(i.sort))>>)]
          IN IF Rejects(<<outcome>>)
             THEN IndexedReadRejected(outcome, lg)
             ELSE IF loopIdx < Len(i.collections)
             THEN /\ allRecords' = records
                  /\ loopIdx' = loopIdx + 1
                  /\ log' = [got EXCEPT !.executeFetches = @ + 1,
                                        !.fetchedFrom = @ \cup {i.collections[loopIdx + 1]},
                                        !.orderedQueries =
                                          @ + (IF IndexedReadIsQuery(i) THEN 1 ELSE 0)]
                  /\ UNCHANGED <<pc, isLoading, reply, execution, summary, intent, crossIntent>>
             ELSE /\ allRecords' = records
                  /\ Executed(i, IndexedResult(i, records),
                              [got EXCEPT !.sortCalls =
                                 @ \o (IF Len(i.collections) > 1
                                       THEN <<SortRecordsCall(records, i.metric, Get(i.sort))>>
                                       ELSE <<>>)])
                  /\ UNCHANGED <<loopIdx, intent, crossIntent>>

\* The client-side path: fetchCollections' Promise.all settles, one outcome
\* per distinct collection
FetchCollections_Settles ==
  /\ pc = "fetchCollections"
  /\ \E outcomes \in [1..Len(Unique(Get(intent).collections)) -> FetchOutcomes(FALSE)],
        arrival \in Arrivals(Len(Unique(Get(intent).collections))) :
       /\ UNCHANGED <<store, activeTab, mergedTable, dataTable, steps>>
       /\ LET i == Get(intent)
              arrived == [k \in 1..Len(outcomes) |-> outcomes[arrival[k]]]
              lg == [log EXCEPT !.fetchFailed = FirstFailure(arrived)]
              fetched == FetchedRecords(store, i.collections, outcomes, arrival)
          IN IF Rejects(outcomes)
             THEN Failed(FirstFailure(arrived), lg)
             ELSE /\ Executed(i, ClientSideResult(i, fetched),
                              [lg EXCEPT !.docsFetched = Len(fetched),
                                         !.arrival = arrival,
                                         !.fetched = fetched,
                                         !.sortCalls =
                                           IF IsSome(i.sort)
                                           THEN <<SortRecordsCall(ClientSideFiltered(i, fetched),
                                                                  i.metric, Get(i.sort))>>
                                           ELSE <<>>])
                  /\ UNCHANGED <<intent, crossIntent, loopIdx, allRecords>>

\* executeSportsQuery / executeEducationQuery: the read settles
ReadDataset_Settles ==
  /\ pc = "readDataset"
  /\ \E outcome \in FetchOutcomes(DatasetReadIsQuery(Get(intent))) :
       /\ UNCHANGED <<store, activeTab, mergedTable, dataTable, steps>>
       /\ LET i == Get(intent)
              dataset == getDatasetType(i.metric)
              lg == [log EXCEPT !.fetchFailed = FirstFailure(<<outcome>>)]
          IN IF Rejects(<<outcome>>)
             THEN Failed(outcome, lg)
             ELSE /\ Executed(i, DatasetResult(dataset, i, DatasetRead(store, dataset, i)),
                              [lg EXCEPT !.docsFetched = Len(DatasetRead(store, dataset, i))])
                  /\ UNCHANGED <<intent, crossIntent, loopIdx, allRecords>>

\* (variant) a throw of generateNaturalResponse is not caught by the inner try
SummaryReplyUncaught(i, exec, sum, outcome) ==
  IF outcome = "thrown" THEN ErrorReply("thrown")
  ELSE ResultReply(i, exec, sum, Some(IF outcome = "text" THEN "completion" ELSE "fallback"))

\* The message handleSubmit appends once generateNaturalResponse settled: a
\* throw is caught and leaves aiResponse undefined
SummaryReply(i, exec, sum, outcome) ==
  ResultReply(i, exec, sum,
              CASE outcome = "text" -> Some("completion")
                [] outcome = "fallback" -> Some("fallback")
                [] outcome = "thrown" -> None)

\* generateNaturalResponse settles; handleSubmit appends the result message
Summarise ==
  /\ pc = "summarise"
  /\ \E outcome \in SummariserOutcomes :
       /\ reply' = SummaryReply(Get(intent), Get(execution), Get(summary), outcome)
       /\ isLoading' = FALSE
       /\ pc' = "idle"
       /\ log' = [log EXCEPT !.summariser = outcome]
       /\ UNCHANGED <<store, intent, crossIntent, loopIdx, allRecords, execution, summary,
                      activeTab, mergedTable, dataTable, steps>>

\* The store requests executeCrossCollectionQuery issues: one per finance
\* collection, one for sports, one for education
CrossRequests(ci) ==
  SumSeq([k \in 1..Len(DatasetTypes(ci)) |->
            IF DatasetTypes(ci)[k] = "finance" THEN Len(Unique(COLLECTIONS)) ELSE 1])

\* parseCrossCollectionQuery from the completion's arrival to its return or
\* throw and, when it returns, executeCrossCollectionQuery up to Promise.all
ParseCross ==
  /\ pc = "parseCross"
  /\ \E answer \in CrossAnswers :
       /\ UNCHANGED <<store, activeTab, mergedTable, dataTable, steps>>
       /\ IF answer.kind = "json"
          THEN /\ crossIntent' = Some(answer.intent)
               /\ pc' = "crossFetch"
               /\ log' = [log EXCEPT !.crossExecuteCalled = TRUE, !.path = "cross",
                                     !.executeFetches = CrossRequests(answer.intent),
                                     !.fetchedFrom =
                                       UNION {IF DatasetTypes(answer.intent)[k] = "finance"
                                              THEN {COLLECTIONS[n] : n \in 1..Len(COLLECTIONS)}
                                              ELSE {DatasetTypes(answer.intent)[k]} :
                                              k \in 1..Len(DatasetTypes(answer.intent))}]
               /\ UNCHANGED <<isLoading, reply, intent, loopIdx, allRecords, execution, summary>>
          ELSE Failed("Failed to parse cross-collection query. Please try rephrasing your question.",
                      [log EXCEPT !.parseFailed = TRUE])

\* executeCrossCollectionQuery: Promise.all settles; handleSubmit appends the
\* text message generateCrossCollectionResponse builds
CrossFetch_Settles ==
  /\ pc = "crossFetch"
  /\ \E outcome \in FetchOutcomes(FALSE) :
       /\ UNCHANGED <<store, activeTab, mergedTable, dataTable, steps>>
       /\ LET lg == [log EXCEPT !.fetchFailed = FirstFailure(<<outcome>>)]
          IN IF Rejects(<<outcome>>)
             THEN Failed(outcome, lg)
             ELSE /\ execution' = Some(executeCrossCollectionQuery(store, Get(crossIntent)))
                  /\ reply' = CrossReply(Get(crossIntent),
                                         executeCrossCollectionQuery(store, Get(crossIntent)))
                  /\ isLoading' = FALSE
                  /\ pc' = "idle"
                  /\ log' = [lg EXCEPT !.docsFetched =
                                         SumSeq([k \in 1..Len(CrossFetch(store, Get(crossIntent))) |->
                                                   Len(CrossFetch(store, Get(crossIntent))[k])])]
                  /\ UNCHANGED <<intent, crossIntent, loopIdx, allRecords, summary>>

\* The user selects another tab: App unmounts the current component, whose
\* state is lost (the results of its pending requests are dropped), and mounts
\* the selected one in its initial state
SelectTab ==
  \E tab \in Tabs \ {activeTab} :
    /\ activeTab' = tab
    /\ mergedTable' = IF tab = "merged" THEN TableLoading ELSE TableUnmounted
    /\ dataTable' = IF tab = "data" THEN DataTableMounted ELSE DataTableUnmounted
    /\ steps' = StepsInitial
    /\ pc' = "idle"
    /\ isLoading' = FALSE
    /\ reply' = NoReply
    /\ intent' = None
    /\ crossIntent' = None
    /\ loopIdx' = 0
    /\ allRecords' = <<>>
    /\ execution' = None
    /\ summary' = None
    /\ log' = EmptyLog
    /\ UNCHANGED store

\* MergedLocationTable's mount effect: Promise.all over fetchCollections (one
\* request per finance collection), readSports() and readEducation() settles
MergedTable_Settles ==
  /\ activeTab = "merged"
  /\ mergedTable.loading
  /\ \E outcomes \in [1..(Len(COLLECTIONS) + 2) -> FetchOutcomes(FALSE)] :
       mergedTable' =
         IF Rejects(outcomes)
         THEN [loading |-> FALSE,
               error |-> Some("Failed to load merged data. Please retry."),
               data |-> <<>>]
         ELSE [loading |-> FALSE, error |-> None,
               data |-> mergeByLocation(fetchCollections(store, COLLECTIONS),
                                        readSports(store, None, None, None, None, None),
                                        readEducation(store, None, None, None, None, None))]
  /\ UNCHANGED <<store, pc, isLoading, reply, intent, crossIntent, loopIdx, allRecords,
                 execution, summary, log, activeTab, dataTable, steps>>

\* toggleCollection's state update
toggleCollection(prev, collection) ==
  IF \E k \in 1..Len(prev) : prev[k] = collection
  THEN LET Other(item) == item # collection IN SelectSeq(prev, Other)
  ELSE Append(prev, collection)

\* The user toggles a collection: selectedCollections changes, the previous
\* effect's cleanup clears its active flag and the effect runs again
DataTable_Toggle ==
  /\ activeTab = "data"
  /\ \E collection \in CollectionNames :
       LET selected == toggleCollection(dataTable.selectedCollections, collection)
           cleaned == [k \in 1..Len(dataTable.fetches) |->
                         [dataTable.fetches[k] EXCEPT !.active = FALSE]]
       IN /\ selected # <<>> => Len(dataTable.fetches) < MaxInFlight
          /\ dataTable' =
               IF selected = <<>>
               THEN [dataTable EXCEPT !.selectedCollections = selected,
                                      !.data = <<>>, !.error = None, !.loading = FALSE,
                                      !.fetches = cleaned]
               ELSE [dataTable EXCEPT !.selectedCollections = selected,
                                      !.loading = TRUE, !.error = None,
                                      !.fetches = Append(cleaned, [collections |-> selected,
                                                                   active |-> TRUE])]
  /\ UNCHANGED <<store, pc, isLoading, reply, intent, crossIntent, loopIdx, allRecords,
                 execution, summary, log, activeTab, mergedTable,
                 steps>>

\* (variant) the handlers do not look at the active flag
FetchHandlersIgnoreActive(table, fetch, outcomes) ==
  IF Rejects(outcomes)
  THEN [table EXCEPT !.error = Some("We could not load the data right now. Please retry."),
                     !.data = <<>>, !.loading = FALSE,
                     !.dropped = @ \/ ~fetch.active]
  ELSE [table EXCEPT !.data = fetchCollections(store, fetch.collections),
                     !.loading = FALSE,
                     !.dropped = @ \/ ~fetch.active]

\* The then / catch / finally handlers of the effect's fetchCollections
\* promise: each returns at once when the effect's active flag is cleared
FetchHandlers(table, fetch, outcomes) ==
  IF ~fetch.active THEN [table EXCEPT !.dropped = TRUE]
  ELSE IF Rejects(outcomes)
  THEN [table EXCEPT !.error = Some("We could not load the data right now. Please retry."),
                     !.data = <<>>, !.loading = FALSE]
  ELSE [table EXCEPT !.data = fetchCollections(store, fetch.collections),
                     !.loading = FALSE]

\* One of the DataTable's fetches in flight settles
DataTable_Settles ==
  /\ activeTab = "data"
  /\ \E k \in 1..Len(dataTable.fetches) :
       \E outcomes \in [1..Len(Unique(dataTable.fetches[k].collections)) -> FetchOutcomes(FALSE)] :
         LET rest == [dataTable EXCEPT !.fetches =
                        SubSeq(@, 1, k - 1) \o SubSeq(@, k + 1, Len(@))]
         IN dataTable' = FetchHandlers(rest, dataTable.fetches[k], outcomes)
  /\ UNCHANGED <<store, pc, isLoading, reply, intent, crossIntent, loopIdx, allRecords,
                 execution, summary, log, activeTab, mergedTable,
                 steps>>

\* What is unchanged by the actions of the multi-step Chat
StepsOnly ==
  UNCHANGED <<store, pc, isLoading, reply, intent, crossIntent, loopIdx, allRecords,
              execution, summary, log, activeTab, mergedTable, dataTable>>

\* The catch block of the multi-step handleSubmit followed by its finally
\* block: an error message is appended and isLoading reset
StepsFailed(text) ==
  [steps EXCEPT !.pc = "idle", !.isLoading = FALSE, !.intent = None,
                !.messages = Append(@, Message("error", "none", text, FALSE))]

\* handleSubmit of the multi-step Chat up to its first await
Steps_Submit ==
  /\ activeTab = "multistep"
  /\ steps.pc = "idle"
  /\ Cardinality({k \in 1..Len(steps.messages) : steps.messages[k].type = "user"})
       < MaxRequests
  /\ steps' = [steps EXCEPT !.pc = "parseWithAI", !.isLoading = TRUE,
                            !.messages = Append(@, Message("user", "none", "query", FALSE))]
  /\ StepsOnly

\* Step 1: parseWithAI settles; the understanding message is appended and
\* the first delay starts, or the parse error is caught
Steps_Understand ==
  /\ steps.pc = "parseWithAI"
  /\ \E answer \in StepAnswers :
       steps' =
         IF answer.kind = "json" /\ validateIntent(answer.intent)
         THEN [steps EXCEPT !.pc = "understood", !.intent = Some(answer.intent),
                            !.messages = Append(@, Message("understanding", "none", "", FALSE))]
         ELSE StepsFailed("Failed to parse query with AI. Please try rephrasing your question.")
  /\ StepsOnly

\* Step 2: the delay elapsed; the query-plan message is appended
Steps_Plan ==
  /\ steps.pc = "understood"
  /\ steps' = [steps EXCEPT !.pc = "planned",
                            !.messages = Append(@, Message("query-plan", "none", "", FALSE))]
  /\ StepsOnly

\* Step 3: the delay elapsed; the execution message is appended with status
\* 'running' and execute is called
Steps_Execute ==
  /\ steps.pc = "planned"
  /\ steps' = [steps EXCEPT !.pc = "execute",
                            !.messages = Append(@, Message("execution", "running", "", FALSE))]
  /\ StepsOnly

\* execute rejected: control goes to the catch block, which appends the error
StepsExecuteRejected(outcome) == StepsFailed(outcome)

\* execute settles: its execution message is set to 'completed' and the
\* last delay starts, or its rejection is caught
Steps_Executed ==
  /\ steps.pc = "execute"
  /\ LET i == Get(steps.intent)
         isQuery == IF getDatasetType(i.metric) # "finance" THEN DatasetReadIsQuery(i)
                    ELSE canUseIndexes(i) /\ IndexedReadIsQuery(i)
         at == Len(steps.messages)
     IN \E outcome \in FetchOutcomes(isQuery) :
          steps' =
            IF outcome = "ok"
            THEN [steps EXCEPT !.pc = "executed",
                               !.messages[at].status = "completed"]
            ELSE StepsExecuteRejected(outcome)
  /\ StepsOnly

\* Step 4: the delay elapsed; the detailed-result message is appended and
\* finally resets isLoading
Steps_Result ==
  /\ steps.pc = "executed"
  /\ steps' = [steps EXCEPT
                 !.pc = "idle", !.isLoading = FALSE, !.intent = None,
                 !.messages = Append(@, Message("detailed-result", "none", "",
                                               execute(store, Get(steps.intent)).records # <<>>))]
  /\ StepsOnly

Next ==
  \/ SelectTab
  \/ Steps_Submit
  \/ Steps_Understand
  \/ Steps_Plan
  \/ Steps_Execute
  \/ Steps_Executed
  \/ Steps_Result
  \/ DataTable_Toggle
  \/ DataTable_Settles
  \/ MergedTable_Settles
  \/ Submit
  \/ SampleData
  \/ ParseWithAI
  \/ IndexedRead_Settles
  \/ FetchCollections_Settles
  \/ ReadDataset_Settles
  \/ Summarise
  \/ ParseCross
  \/ CrossFetch_Settles

Spec == Init /\ [][Next]_vars

\* ------------------------------------------------------------ properties
\* The identity of each record of a result, in order
Ids(records) == [k \in 1..Len(records) |-> <<records[k].__collection, records[k].id>>]

\* The metric values of the records of a result, in order
MetricValues(records, metric) ==
  [k \in 1..Len(records) |-> metricExtractor(metric, records[k])]

\* A sequence of numbers in the given order
SortedValues(values, order) ==
  LET perm == StableSortPerm(values, order) IN [k \in 1..Len(values) |-> values[perm[k]]]

Distinct(s) == \A j, k \in 1..Len(s) : j # k => s[j] # s[k]

\* C1: for an intent without type and location filter that names each
\* collection once, the indexed path
\* returns the same ordered sequence of record ids as the client-side pipeline
\* (fetch the target collections, filter on the normalised status, sort by the
\* metric, limit) returns for the same data.
C1_IndexedEqualsClientSide ==
  (/\ IsSome(execution) /\ IsSome(intent) /\ log.path = "indexed"
   /\ Distinct(Get(intent).collections)
   /\ ~TruthyStr(Get(intent).typeFilter) /\ ~TruthyStr(Get(intent).locationFilter))
  => Ids(Get(execution).records)
       = Ids(ClientSideResult(Get(intent),
                              fetchCollections(store, Get(intent).collections)).records)

\* C2: on the indexed path with limit k over two or more distinct collections
\* (no type or location filter), the metric values of the returned records are
\* the first k of the metric values, in the sort order, of all the records of
\* those collections whose status matches.
C2_GlobalTopK ==
  (/\ IsSome(execution) /\ IsSome(intent) /\ log.path = "indexed"
   /\ TruthyNum(Get(intent).limit)
   /\ Len(Get(intent).collections) >= 2 /\ Distinct(Get(intent).collections)
   /\ ~TruthyStr(Get(intent).typeFilter) /\ ~TruthyStr(Get(intent).locationFilter))
  => LET i == Get(intent)
         matching == filterByStatus(fetchCollections(store, i.collections), i.status)
     IN MetricValues(Get(execution).records, i.metric)
          = Slice(SortedValues(MetricValues(matching, i.metric), Get(i.sort)), Get(i.limit))

\* C3: on every path, an intent with limit k that names each collection once gets exactly min(k, N) records,
\* N the number of records the same intent gets without sort and limit, and
\* they are the first records of what the intent gets without limit.
C3_LimitIsPrefix ==
  (/\ IsSome(execution) /\ IsSome(intent) /\ TruthyNum(Get(intent).limit)
   /\ Distinct(Get(intent).collections))
  => LET i == Get(intent)
         N == Len(execute(store, [i EXCEPT !.limit = None, !.sort = None]).records)
         unlimited == execute(store, [i EXCEPT !.limit = None]).records
     IN /\ Len(Get(execution).records) = Min(Get(i.limit), N)
        /\ Ids(Get(execution).records) = Ids(Slice(unlimited, Get(i.limit)))

\* C4: when the intent asks for a breakdown by collection and names one or
\* more collections, each once, the values of the breakdown entries add up to the total.
C4_BreakdownSumsToTotal ==
  (/\ IsSome(summary) /\ IsSome(intent) /\ Get(intent).breakdown = "collection"
   /\ Get(intent).collections # <<>> /\ Distinct(Get(intent).collections))
  => SumSeq([k \in 1..Len(Get(summary).breakdown) |-> Get(summary).breakdown[k].value])
       = Get(summary).total

\* C5: when a store request issued by execute fails, the request ends with an
\* error message and no ExecutionResult: none is built from the collections
\* whose requests succeeded.
C5_FetchFailureFailsExecute ==
  log.fetchFailed # "no"
  => /\ pc = "idle"
     /\ reply.type = "error"
     /\ reply.text = log.fetchFailed
     /\ execution = None
     /\ summary = None

C5_Witness ==
  /\ log.path = "client"
  /\ log.executeFetches >= 2
  /\ log.fetchFailed = "NetworkFailure"
  /\ reply.type = "error"

C7_NoFetchBeforeValidation ==
  log.validationFailed => (log.sampleFetches = 0 /\ log.executeFetches = 0)

\* C7 (amended): when the parsed intent fails validation, execute has not been
\* called and has issued no request; the requests issued are the sample reads
\* of the three finance collections that parseWithAI awaits first.
C7_NoExecuteFetchBeforeValidation ==
  log.validationFailed
  => /\ ~log.executeCalled
     /\ log.executeFetches = 0
     /\ log.sampleFetches = Len(COLLECTIONS)
     /\ reply.type = "error"

C7_Witness ==
  /\ log.validationFailed
  /\ log.sampleFetches = 3
  /\ reply.type = "error"

\* C8: when parseWithAI or parseCrossCollectionQuery throws, the request ends
\* with an error message; no intent is substituted and neither execute nor
\* executeCrossCollectionQuery is called.
C8_ParseFailureStops ==
  log.parseFailed
  => /\ pc = "idle"
     /\ reply.type = "error"
     /\ intent = None
     /\ crossIntent = None
     /\ ~log.executeCalled
     /\ ~log.crossExecuteCalled
     /\ log.executeFetches = 0
     /\ execution = None

C8_Witness ==
  /\ log.parseFailed
  /\ ~log.validationFailed
  /\ log.sampleFetches = 3
  /\ reply.type = "error"

\* C9: when the summariser fails after execute succeeded (it falls back or
\* throws), the request still ends with a result message that carries the
\* execution result and the aggregate summary computed before it was called.
C9_SummariserFailureKeepsResult ==
  log.summariser \in {"fallback", "thrown"}
  => /\ IsSome(execution) /\ IsSome(summary)
     /\ reply.type = "result"
     /\ reply.execution = execution
     /\ reply.summary = summary
     /\ reply.hasData = (Get(execution).records # <<>>)

C9_Witness ==
  /\ log.summariser = "thrown"
  /\ reply.type = "result"
  /\ reply.aiResponse = None
  /\ IsSome(execution)
  /\ Get(execution).records # <<>>

\* C10: for a finance metric, execute reports path 'firestore-indexes' with
\* usedIndexes = true exactly when the metric is one of income, rent, salary,
\* electricity, misc and a sort is given; otherwise 'client-side' with
\* usedIndexes = false.
C10_PathSelection ==
  (IsSome(execution) /\ IsSome(intent) /\ getDatasetType(Get(intent).metric) = "finance")
  => LET i == Get(intent)
         e == Get(execution)
     IN IF i.metric \in {"income", "rent", "salary", "electricity", "misc"}
           /\ i.sort \in {Some("asc"), Some("desc")}
        THEN e.executionPath = "firestore-indexes" /\ e.usedIndexes = TRUE
        ELSE e.executionPath = "client-side" /\ e.usedIndexes = FALSE

C10_Witness ==
  /\ IsSome(execution) /\ IsSome(intent)
  /\ Get(intent).metric = "staff"
  /\ Get(intent).sort = Some("desc")
  /\ Get(execution).executionPath = "client-side"
  /\ Get(execution).records # <<>>

\* C11: in every ExecutionResult of execute that issued a store request,
\* usedIndexes is true exactly when the records were retrieved by store
\* requests carrying an orderBy clause.
C11_UsedIndexesIffOrderedQuery ==
  (IsSome(execution) /\ IsSome(intent) /\ log.executeFetches > 0)
  => (Get(execution).usedIndexes <=> log.orderedQueries > 0)

\* C12: in every ExecutionResult, docsRead is the number of documents the
\* store returned to the requests of that execution (for the finance and merge
\* paths before any in-memory filter, sort or limit; for sports and education
\* the documents returned by the store-side query).
C12_DocsReadIsDocsFetched ==
  IsSome(execution) => Get(execution).docsRead = log.docsFetched

\* C13: for a sports or education metric the result of execute does not
\* depend on intent.collections: it is the result of every intent that differs
\* only in collections; only the dataset's own collection is read; every
\* record is tagged with the dataset and executionPath names it.
C13_DatasetIgnoresCollections ==
  (IsSome(execution) /\ IsSome(intent) /\ getDatasetType(Get(intent).metric) # "finance")
  => LET i == Get(intent)
         e == Get(execution)
         dataset == IF i.metric \in sportsMetrics THEN "sports" ELSE "education"
     IN /\ \A cs \in AnswerCollections : execute(store, [i EXCEPT !.collections = cs]) = e
        /\ log.fetchedFrom = {dataset}
        /\ \A k \in 1..Len(e.records) : e.records[k].__collection = dataset
        /\ e.executionPath = (IF dataset = "sports" THEN "sports-collection"
                              ELSE "education-collection")

C13_Witness ==
  /\ IsSome(execution) /\ IsSome(intent)
  /\ Get(intent).metric = "students"
  /\ Get(intent).collections = <<"college1", "school1">>
  /\ Len(Get(execution).records) = 2
  /\ Get(execution).executionPath = "education-collection"

\* C14: every finance record execute returns, and every record the indexed
\* loop has collected, has expenditure = rent + salary + electricity + misc
\* and profit = income - expenditure, whatever totals its document stores.
C14_DerivedTotals ==
  LET Derived(r) ==
        /\ r.expenditure = r.rent + r.salary + r.electricity + r.misc
        /\ r.profit = r.income - r.expenditure
  IN /\ \A k \in 1..Len(allRecords) : Derived(allRecords[k])
     /\ (IsSome(execution) /\ IsSome(intent) /\ getDatasetType(Get(intent).metric) = "finance")
        => \A k \in 1..Len(Get(execution).records) : Derived(Get(execution).records[k])

\* A returned record with negative income whose document stores other totals
C14_Witness ==
  /\ IsSome(execution) /\ IsSome(intent)
  /\ log.path = "client"
  /\ \E k \in 1..Len(Get(execution).records) :
       LET r == Get(execution).records[k]
           doc == store[r.__collection][r.id]
       IN /\ r.income < 0
          /\ r.profit < r.income
          /\ doc.expenditure # Some(r.expenditure)
          /\ doc.profit # Some(r.profit)

\* The three status filters split the records: every record has one of the
\* three statuses, the three filtered lists share no record and together have
\* as many records, and the same records, as the list filtered with 'any'.
StatusPartition(records) ==
  LET active == filterByStatus(records, strActive)
      inactive == filterByStatus(records, strInactive)
      unknown == filterByStatus(records, strUnknown)
      any == filterByStatus(records, strAny)
      IdSet(rs) == {Ids(rs)[k] : k \in 1..Len(rs)}
  IN /\ \A k \in 1..Len(records) :
          records[k].status \in {strActive, strInactive, strUnknown}
     /\ any = records
     /\ Len(active) + Len(inactive) + Len(unknown) = Len(any)
     /\ IdSet(active) \cap IdSet(inactive) = {}
     /\ IdSet(active) \cap IdSet(unknown) = {}
     /\ IdSet(inactive) \cap IdSet(unknown) = {}
     /\ IdSet(active) \cup IdSet(inactive) \cup IdSet(unknown) = IdSet(any)

\* C15: every normalised record has status active, inactive or unknown, and
\* filtering a record set on the three statuses partitions what filtering on
\* 'any' returns; for the records of the store's finance collections and for
\* the records of every execution result.
C15_StatusPartition ==
  /\ StatusPartition(fetchCollections(store, COLLECTIONS))
  /\ IsSome(execution) /\ IsSome(intent) => StatusPartition(Get(execution).records)

C15_Witness ==
  /\ IsSome(execution) /\ IsSome(intent)
  /\ log.path = "client"
  /\ filterByStatus(Get(execution).records, strActive) # <<>>
  /\ filterByStatus(Get(execution).records, strInactive) # <<>>
  /\ filterByStatus(Get(execution).records, strUnknown) # <<>>
  /\ \E k \in 1..Len(Get(execution).records) :
       Get(execution).records[k].statusRaw = Some(strActiveCap)

\* C16: in the result of executeCrossCollectionQuery, the merged row of a
\* location holds the finance data of every fetched finance record of that
\* location.
C16_MergedRowKeepsAllFinance ==
  (/\ IsSome(execution) /\ IsSome(crossIntent) /\ log.path = "cross"
   /\ \E k \in 1..Len(DatasetTypes(Get(crossIntent))) :
        DatasetTypes(Get(crossIntent))[k] = "finance")
  => \A k \in 1..Len(Get(execution).records) :
       LET merged == Get(execution).records[k]
           finance == fetchCollections(store, COLLECTIONS)
       IN \A n \in 1..Len(finance) :
            finance[n].location = Some(merged.location)
            => /\ merged.income = Some(finance[n].income)
               /\ merged.rent = Some(finance[n].rent)
               /\ merged.salary = Some(finance[n].salary)
               /\ merged.electricity = Some(finance[n].electricity)
               /\ merged.misc = Some(finance[n].misc)
               /\ merged.staff = Some(finance[n].staff)

\* C20: in the result of executeCrossCollectionQuery without filters, every
\* fetched record has a merged row: the row of its location, or the row keyed
\* by the empty string when its location is missing or empty.
C20_EveryRecordHasMergedRow ==
  (/\ IsSome(execution) /\ IsSome(crossIntent) /\ log.path = "cross"
   /\ Get(crossIntent).status = Some(strAny)
   /\ ~TruthyStr(Get(crossIntent).locationFilter)
   /\ ~TruthyStr(Get(crossIntent).typeFilter))
  => LET results == CrossFetch(store, Get(crossIntent))
         Key(record) == IF TruthyStr(record.location) THEN Get(record.location) ELSE <<>>
     IN \A d \in 1..Len(results) : \A n \in 1..Len(results[d]) :
          \E k \in 1..Len(Get(execution).records) :
            Get(execution).records[k].location = Key(results[d][n])

\* C17: once MergedLocationTable has loaded, every finance record without a
\* location is in the finance list of the row keyed by the empty string, and
\* there is one such row.
C17_UnlocatedFinanceShareOneRow ==
  (activeTab = "merged" /\ ~mergedTable.loading /\ mergedTable.error = None)
  => LET finance == fetchCollections(store, COLLECTIONS)
         rows == mergedTable.data
         blank == {k \in 1..Len(rows) : rows[k].location = <<>>}
     IN /\ Cardinality(blank) <= 1
        /\ \A n \in 1..Len(finance) :
             ~IsSome(finance[n].location)
             => \E k \in blank : \E m \in 1..Len(rows[k].finance) :
                  rows[k].finance[m] = finance[n]
        /\ \A k \in 1..Len(rows) : \A m \in 1..Len(rows[k].finance) :
             ~IsSome(rows[k].finance[m].location) => k \in blank

C17_Witness ==
  /\ activeTab = "merged" /\ ~mergedTable.loading /\ mergedTable.error = None
  /\ \E k \in 1..Len(mergedTable.data) :
       /\ mergedTable.data[k].location = <<>>
       /\ Len(mergedTable.data[k].finance) = 2
       /\ mergedTable.data[k].finance[1].__collection
            # mergedTable.data[k].finance[2].__collection

\* C18: every intent parseWithAI returns has no limit or an integer limit
\* between 1 and 100.
C18_ReturnedLimitIsInteger ==
  IsSome(intent)
  => \/ ~IsSome(Get(intent).limit)
     \/ /\ ~Get(intent).limitHalf
        /\ Get(intent).limit \in {Some(k) : k \in LimitMin..LimitMax}

\* C19: every finance intent that passed validateIntent names at least one
\* collection, and only known collections.
C19_FinanceIntentNamesCollections ==
  (IsSome(intent) /\ getDatasetType(Get(intent).metric) = "finance")
  => /\ Get(intent).collections # <<>>
     /\ \A k \in 1..Len(Get(intent).collections) :
          Get(intent).collections[k] \in validCollections

\* C21: once MergedLocationTable has loaded, its rows are those of
\* mergeByLocation: one row per distinct location key of the finance, sports
\* and education records; a row's finance list holds the finance records of its
\* location, each once and in input order; its sports (education) entry is the
\* last sports (education) record of its location, if there is one.
C21_MergeByLocation ==
  (activeTab = "merged" /\ ~mergedTable.loading /\ mergedTable.error = None)
  => LET finance == fetchCollections(store, COLLECTIONS)
         sports == readSports(store, None, None, None, None, None)
         education == readEducation(store, None, None, None, None, None)
         rows == mergedTable.data
         KeysOf(records) == {LocationKey(records[n]) : n \in 1..Len(records)}
         Last(records, loc) ==
           LET at == {n \in 1..Len(records) : LocationKey(records[n]) = loc}
           IN IF at = {} THEN None
              ELSE Some(records[CHOOSE n \in at : \A m \in at : m <= n])
     IN /\ Distinct([k \in 1..Len(rows) |-> rows[k].location])
        /\ {rows[k].location : k \in 1..Len(rows)}
             = KeysOf(finance) \cup KeysOf(sports) \cup KeysOf(education)
        /\ \A k \in 1..Len(rows) :
             LET Here(record) == LocationKey(record) = rows[k].location
             IN /\ rows[k].finance = SelectSeq(finance, Here)
                /\ rows[k].sports = Last(sports, rows[k].location)
                /\ rows[k].education = Last(education, rows[k].location)

\* A loaded table with a row that holds two finance records and the second of
\* two sports records of its location
C21_Witness ==
  /\ activeTab = "merged" /\ ~mergedTable.loading /\ mergedTable.error = None
  /\ \E k \in 1..Len(mergedTable.data) :
       LET row == mergedTable.data[k]
           sports == readSports(store, None, None, None, None, None)
       IN /\ Len(row.finance) = 2
          /\ Len(sports) = 2
          /\ LocationKey(sports[1]) = row.location
          /\ row.sports = Some(sports[2])
          /\ IsSome(row.education)

\* C22: on the client-side path, fetchCollections issues one store request
\* per distinct name of intent.collections and, whatever the order in which
\* the responses arrive, returns every document of the named collections once,
\* the records of a collection together, and the collections in the order in
\* which their names first appear.
C22_FetchCollectionsGroupsInRequestOrder ==
  (IsSome(execution) /\ IsSome(intent) /\ log.path = "client")
  => LET collections == Get(intent).collections
         names == {collections[k] : k \in 1..Len(collections)}
         First(name) == CHOOSE k \in 1..Len(collections) :
                          /\ collections[k] = name
                          /\ \A j \in 1..(k - 1) : collections[j] # name
         Of(name) == LET Is(record) == record.__collection = name
                     IN SelectSeq(log.fetched, Is)
     IN /\ log.executeFetches = Cardinality(names)
        /\ \A n \in 1..Len(log.fetched) : log.fetched[n].__collection \in names
        /\ \A a, b \in 1..Len(log.fetched) :
             a < b => First(log.fetched[a].__collection) <= First(log.fetched[b].__collection)
        /\ \A name \in names :
             /\ Len(Of(name)) = Len(store[name])
             /\ {Of(name)[n].id : n \in 1..Len(Of(name))}
                  = {store[name][n].id : n \in 1..Len(store[name])}

\* The response for the second collection arrived before that for the first
C22_Witness ==
  /\ IsSome(execution) /\ IsSome(intent) /\ log.path = "client"
  /\ Get(intent).collections = <<"school1", "college1">>
  /\ log.executeFetches = 2
  /\ log.arrival = <<2, 1>>
  /\ Len(log.fetched) = 4
  /\ log.fetched[1].__collection = "school1"
  /\ log.fetched[4].__collection = "college1"

\* C23: every call of sortRecordsClientSide made by execute returns a
\* permutation of its argument ordered by the metric value (desc: larger
\* first, asc: smaller first; profit and expenditure computed from the base
\* fields), records of equal value in their input order, and leaves the
\* argument as it was.
C23_SortIsStablePermutation ==
  \A c \in 1..Len(log.sortCalls) :
    LET call == log.sortCalls[c]
        Value(r) ==
          CASE call.metric = "expenditure" -> r.rent + r.salary + r.electricity + r.misc
            [] call.metric = "profit" ->
                 r.income - (r.rent + r.salary + r.electricity + r.misc)
            [] OTHER -> r[call.metric]
        Values == {Value(call.argument[n]) : n \in 1..Len(call.argument)}
        Of(records, v) == LET Is(r) == Value(r) = v IN SelectSeq(records, Is)
    IN /\ Len(call.result) = Len(call.argument)
       \* the records of each value are those of the argument, in its order
       /\ \A v \in Values : Of(call.result, v) = Of(call.argument, v)
       /\ \A a, b \in 1..Len(call.result) :
            a < b => IF call.order = "desc"
                     THEN Value(call.result[a]) >= Value(call.result[b])
                     ELSE Value(call.result[a]) <= Value(call.result[b])
       /\ call.after = call.argument

\* A call that reordered four records, two of them of equal profit
C23_Witness ==
  /\ IsSome(execution) /\ log.path = "client"
  /\ Len(log.sortCalls) = 1
  /\ LET call == log.sortCalls[1]
     IN /\ call.metric = "profit" /\ call.order = "desc"
        /\ Len(call.argument) = 4
        /\ call.result # call.argument
        /\ profitOf(call.result[1]) = profitOf(call.result[2])
        /\ call.result[1].id < call.result[2].id

\* C24: on the client-side path the result holds exactly the fetched records
\* that pass the status filter (none for 'any'), the type filter (equal,
\* letter case ignored) and the location filter (contained, letter case
\* ignored), sorted by the metric when sort is set and cut to the first limit
\* records when limit is set; docsRead counts the fetched records.
C24_ClientSidePipeline ==
  (IsSome(execution) /\ IsSome(intent) /\ log.path = "client")
  => LET i == Get(intent)
         e == Get(execution)
         Pass(r) ==
           /\ i.status # strAny => r.status = i.status
           /\ TruthyStr(i.typeFilter)
              => /\ IsSome(r.type)
                 /\ ToLowerCase(Get(r.type)) = ToLowerCase(Get(i.typeFilter))
           /\ TruthyStr(i.locationFilter)
              => /\ IsSome(r.location)
                 /\ Includes(ToLowerCase(Get(r.location)), ToLowerCase(Get(i.locationFilter)))
         kept == SelectSeq(log.fetched, Pass)
         ordered == IF IsSome(i.sort)
                    THEN sortRecordsClientSide(kept, i.metric, Get(i.sort)) ELSE kept
     IN /\ e.records = IF TruthyNum(i.limit)
                       THEN SubSeq(ordered, 1, Min(Get(i.limit), Len(ordered)))
                       ELSE ordered
        /\ e.docsRead = Len(log.fetched)
        /\ log.fetched = fetchCollections(store, i.collections)

\* Six records fetched, two of them active and in East, the first by profit kept
C24_Witness ==
  /\ IsSome(execution) /\ IsSome(intent) /\ log.path = "client"
  /\ Get(intent).status = strActive
  /\ Get(intent).locationFilter = Some(strEastLower)
  /\ Get(intent).typeFilter = None
  /\ Get(intent).metric = "profit"
  /\ Get(intent).sort = Some("desc")
  /\ Get(intent).limit = Some(1)
  /\ Get(execution).docsRead = 6
  /\ Len(ClientSideFiltered(Get(intent), log.fetched)) = 2
  /\ Len(Get(execution).records) = 1
  /\ Get(execution).records[1].location = Some(strEast)

\* What aggregateByIntent(records, intent) has to return: no breakdown for
\* 'none'; otherwise one entry per element of i.collections, in order,
\* whose value adds the metric over the records of that collection that pass
\* the status filter (0 when there is none); docsRead the number of records,
\* filteredCount the number that pass the status filter.
AggregateContract(records, i, result) ==
  LET Passing(name) ==
        {n \in 1..Len(records) :
           /\ i.status # strAny => records[n].status = i.status
           /\ name # "" => records[n].__collection = name}
      RECURSIVE Add(_)
      Add(ns) == IF ns = {} THEN 0
                 ELSE LET n == CHOOSE n \in ns : TRUE
                      IN metricExtractor(i.metric, records[n]) + Add(ns \ {n})
  IN /\ result.breakdown =
          IF i.breakdown = "none" THEN <<>>
          ELSE [k \in 1..Len(i.collections) |->
                  [collection |-> i.collections[k],
                   value |-> Add(Passing(i.collections[k]))]]
     /\ result.docsRead = Len(records)
     /\ result.filteredCount = Cardinality(Passing(""))
     /\ result.filteredCount <= result.docsRead

\* C25: aggregateByIntent keeps its contract, for the summary handleSubmit
\* computes from the execution result and for the aggregate of all the stored
\* finance records under the same intent.
C25_AggregateByIntent ==
  (IsSome(summary) /\ IsSome(execution) /\ IsSome(intent))
  => /\ AggregateContract(Get(execution).records, Get(intent), Get(summary))
     /\ LET all == fetchCollections(store, COLLECTIONS)
        IN AggregateContract(all, Get(intent), aggregateByIntent(all, Get(intent)))

\* A breakdown over two collections, the first without an inactive record;
\* of all the stored records only some are inactive
C25_Witness ==
  /\ IsSome(summary) /\ IsSome(execution) /\ IsSome(intent)
  /\ Get(intent).breakdown = "collection"
  /\ Get(intent).collections = <<"college1", "school1">>
  /\ Get(intent).status = strInactive
  /\ Len(Get(summary).breakdown) = 2
  /\ Get(summary).breakdown[1].value = 0
  /\ Get(summary).breakdown[2].value # 0
  /\ LET a == aggregateByIntent(fetchCollections(store, COLLECTIONS), Get(intent))
     IN 0 < a.filteredCount /\ a.filteredCount < a.docsRead

\* C26: in the finance DataTable at most one fetch in flight is active, the
\* one for the current selection.  While it is in flight the table is loading
\* without error, whatever superseded responses arrive.  Once none is in
\* flight, loading is false and data holds the records of the current
\* selection, or data is empty and error is set.
C26_StaleFetchIsDropped ==
  activeTab = "data"
  => LET t == dataTable
         active == {k \in 1..Len(t.fetches) : t.fetches[k].active}
     IN /\ \A k \in active :
             k = Len(t.fetches) /\ t.fetches[k].collections = t.selectedCollections
        /\ active # {} => (t.loading /\ t.error = None)
        /\ active = {}
           => /\ ~t.loading
              /\ \/ /\ t.error = None
                    /\ t.data = fetchCollections(store, t.selectedCollections)
                 \/ /\ IsSome(t.error)
                    /\ t.data = <<>>

\* The table shows the records of a narrowed selection after the response of
\* the superseded fetch for all collections arrived and was dropped
C26_Witness ==
  /\ activeTab = "data"
  /\ dataTable.dropped
  /\ dataTable.fetches = <<>>
  /\ ~dataTable.loading
  /\ dataTable.error = None
  /\ dataTable.selectedCollections = <<"college1", "school2">>
  /\ dataTable.data # <<>>
  /\ dataTable.data = fetchCollections(store, dataTable.selectedCollections)
  /\ dataTable.data # fetchCollections(store, COLLECTIONS)

\* C27: when the intent has a location filter, every record execute returns
\* has a location that contains the filter text, letter case ignored.
C27_LocationFilterApplied ==
  (IsSome(execution) /\ IsSome(intent) /\ TruthyStr(Get(intent).locationFilter))
  => \A k \in 1..Len(Get(execution).records) :
       LET r == Get(execution).records[k]
       IN /\ IsSome(r.location)
          /\ Includes(ToLowerCase(Get(r.location)),
                      ToLowerCase(Get(Get(intent).locationFilter)))

\* C28: execute returns each stored document at most once: no two records of
\* a result have the same id and the same collection.
C28_NoDocumentTwice ==
  (IsSome(execution) /\ IsSome(intent)) => Distinct(Ids(Get(execution).records))

\* C29: in every ExecutionResult of execute and executeCrossCollectionQuery
\* the number of records is at most docsRead.
C29_RecordsAtMostDocsRead ==
  IsSome(execution) => Len(Get(execution).records) <= Get(execution).docsRead

\* A merge of more than two documents into two rows
C29_Witness ==
  /\ IsSome(execution) /\ IsSome(crossIntent) /\ log.path = "cross"
  /\ Len(Get(execution).records) = 2
  /\ Get(execution).docsRead > 2

\* C30: in the multi-step Chat, when no request is being handled (isLoading
\* is false) no execution message has status 'running': each was set to
\* 'completed' before its request ended, with a result or with an error.
C30_ExecutionMessageCompleted ==
  (activeTab = "multistep" /\ ~steps.isLoading)
  => \A k \in 1..Len(steps.messages) : steps.messages[k].status # "running"

====
